---- MODULE Spec2Model ----
(***************************************************************************)
(* The streaming session of the Trisonica data logger (src/datalogger.py): *)
(* the line decoder, the schema registry, the statistics engine, the       *)
(* health classifier, the trend store and the run loop with its            *)
(* termination-signal handler.                                             *)
(*                                                                         *)
(* Text is a sequence of one-character strings.  A float is kept as its    *)
(* exact number of hundredths (the sensor prints two decimals), so that    *)
(* -99.50 is -9950 and 100000 is 10000000.                                 *)
(***************************************************************************)
EXTENDS Integers, Sequences, FiniteSets, TLC

\* ---------------------------------------------------------------- constants

MAX_DATAPOINTS == 1000

StatWindow == 100

CheckpointEvery == 100

VizLen == 50

RecentLen == 1000

\* -99.50, the generic sensor error value, in hundredths
ErrorValue == -9950

\* -99.70, the pressure "offline" value, in hundredths
OfflineValue == -9970

\* 100000, the temperature malfunction threshold, in hundredths
MalfunctionAbove == 10000000

\* update_display: half a turn and a full turn of the compass, in hundredths
HalfTurn == 18000

FullTurn == 36000

\* Config.save_statistics (its default)
save_statistics == TRUE

\* ------------------------------------------------------------------- bounds

\* lines the source delivers when every line is chosen freely
FreeLines == 2

\* lines the source delivers when it follows a repeating pattern
LongRun == 151

\* termination signals delivered in one run
MaxSignals == 1

\* lines the source delivers in the runs checked for progress
FairLines == 1

\* lines the source delivers in the runs that exercise the health classifier
HealthRun == 2

\* lines the source delivers in the runs that exercise the decoder
DecodeRun == 2

\* lines the source delivers in the runs that fill the long trend buffers
TrendRun == 501

\* lines the source delivers in the runs that fill the recent history
HistoryRun == 1001

\* rows after the first line of a file read back
FileRows == 2

\* lines the source delivers in the runs that exercise the wind panel
DirRun == 3

\* the files of a batch are at most this many
BatchLen == 3

\* termination signals delivered to a session that gets more than one
RepeatSignals == 2

\* --------------------------------------------------------------------- text

IsSpace(c) == c \in {" ", "\t", "\n", "\r"}

RECURSIVE LStrip(_)
LStrip(s) ==
  IF s = <<>> THEN s
  ELSE IF IsSpace(Head(s)) THEN LStrip(Tail(s)) ELSE s

RECURSIVE RStrip(_)
RStrip(s) ==
  IF s = <<>> THEN s
  ELSE IF IsSpace(s[Len(s)]) THEN RStrip(SubSeq(s, 1, Len(s) - 1)) ELSE s

\* str.strip()
Strip(s) == RStrip(LStrip(s))

Contains(s, c) == \E i \in 1..Len(s) : s[i] = c

\* the index of the first c in s, 0 when there is none
IndexOf(s, c) ==
  IF Contains(s, c) THEN CHOOSE i \in 1..Len(s) : s[i] = c /\ \A j \in 1..(i-1) : s[j] # c
  ELSE 0

\* str.split(c): the pieces between the occurrences of c, empty pieces kept
RECURSIVE SplitOn(_, _)
SplitOn(s, c) ==
  LET i == IndexOf(s, c)
  IN  IF i = 0 THEN <<s>>
      ELSE <<SubSeq(s, 1, i - 1)>> \o SplitOn(SubSeq(s, i + 1, Len(s)), c)

\* the index of the first whitespace character in s, 0 when there is none
FirstSpace(s) ==
  IF \E i \in 1..Len(s) : IsSpace(s[i])
  THEN CHOOSE i \in 1..Len(s) : IsSpace(s[i]) /\ \A j \in 1..(i-1) : ~IsSpace(s[j])
  ELSE 0

\* str.split(): the maximal runs of non-whitespace characters
RECURSIVE SplitWs(_)
SplitWs(s) ==
  LET t == LStrip(s)
      i == FirstSpace(t)
  IN  IF t = <<>> THEN <<>>
      ELSE IF i = 0 THEN <<t>>
      ELSE <<SubSeq(t, 1, i - 1)>> \o SplitWs(SubSeq(t, i + 1, Len(t)))

\* ------------------------------------------- insertion-ordered dictionaries
\* A Python dict is a sequence of <<key, value>> pairs in insertion order.

DictKeys(d) == {d[i][1] : i \in 1..Len(d)}

DictHas(d, k) == \E i \in 1..Len(d) : d[i][1] = k

DictGet(d, k) == d[CHOOSE i \in 1..Len(d) : d[i][1] = k][2]

\* d[k] = v: a known key keeps its place, a new key goes last
DictPut(d, k, v) ==
  IF DictHas(d, k)
  THEN [i \in 1..Len(d) |-> IF d[i][1] = k THEN <<k, v>> ELSE d[i]]
  ELSE Append(d, <<k, v>>)

\* ------------------------------------------------------------- line decoder

\* a piece without a space ends the decoding of the line
RECURSIVE ParsePairs_StopsAtBadPiece(_, _)
ParsePairs_StopsAtBadPiece(pairs, parsed) ==
  IF pairs = <<>> THEN parsed
  ELSE LET pair == Strip(Head(pairs))
           i    == IndexOf(pair, " ")
       IN  IF i > 0
           THEN ParsePairs_StopsAtBadPiece(Tail(pairs),
                  DictPut(parsed, Strip(SubSeq(pair, 1, i - 1)),
                                  Strip(SubSeq(pair, i + 1, Len(pair)))))
           ELSE parsed

\* the comma branch: one "key value" piece
RECURSIVE ParsePairs(_, _)
ParsePairs(pairs, parsed) ==
  IF pairs = <<>> THEN parsed
  ELSE LET pair == Strip(Head(pairs))
           i    == IndexOf(pair, " ")
       IN  IF i > 0
           THEN ParsePairs(Tail(pairs),
                  DictPut(parsed, Strip(SubSeq(pair, 1, i - 1)),
                                  Strip(SubSeq(pair, i + 1, Len(pair)))))
           ELSE ParsePairs(Tail(pairs), parsed)

\* a last token without a partner kept as a key with an empty value
RECURSIVE ParseFlat_KeepsUnpairedToken(_, _, _)
ParseFlat_KeepsUnpairedToken(parts, i, parsed) ==
  IF i > Len(parts) THEN parsed
  ELSE IF i = Len(parts) THEN DictPut(parsed, parts[i], <<>>)
  ELSE ParseFlat_KeepsUnpairedToken(parts, i + 2, DictPut(parsed, parts[i], parts[i + 1]))

\* the whitespace branch: parts[i] -> parts[i+1] for i = 0, 2, 4, ...
RECURSIVE ParseFlat(_, _, _)
ParseFlat(parts, i, parsed) ==
  IF i + 1 > Len(parts) THEN parsed
  ELSE ParseFlat(parts, i + 2, DictPut(parsed, parts[i], parts[i + 1]))

parse_data_line(line) ==
  IF Contains(line, ",")
  THEN ParsePairs(SplitOn(Strip(line), ","), <<>>)
  ELSE ParseFlat(SplitWs(Strip(line)), 1, <<>>)

\* -------------------------------------------------------------------- float

IsDigit(c) == c \in {"0", "1", "2", "3", "4", "5", "6", "7", "8", "9"}

DigitVal(c) ==
  CASE c = "0" -> 0 [] c = "1" -> 1 [] c = "2" -> 2 [] c = "3" -> 3 [] c = "4" -> 4
    [] c = "5" -> 5 [] c = "6" -> 6 [] c = "7" -> 7 [] c = "8" -> 8 [] c = "9" -> 9

AllDigits(s) == \A i \in 1..Len(s) : IsDigit(s[i])

RECURSIVE NatOf(_)
NatOf(s) == IF s = <<>> THEN 0 ELSE NatOf(SubSeq(s, 1, Len(s) - 1)) * 10 + DigitVal(s[Len(s)])

\* float(text) for decimal numerals: [ok |-> FALSE] stands for ValueError.
\* The value is in hundredths; the numerals of the model have at most two
\* decimals (the exponent, inf and nan spellings are not in its alphabet).
ToFloat(s) ==
  LET signed == s # <<>> /\ s[1] \in {"-", "+"}
      body   == IF signed THEN Tail(s) ELSE s
      dot    == IndexOf(body, ".")
      ip     == IF dot = 0 THEN body ELSE SubSeq(body, 1, dot - 1)
      fp     == IF dot = 0 THEN <<>> ELSE SubSeq(body, dot + 1, Len(body))
      fp2    == SubSeq(fp \o <<"0", "0">>, 1, 2)
      mag    == NatOf(ip) * 100 + NatOf(fp2)
  IN  IF AllDigits(ip) /\ AllDigits(fp) /\ Len(ip) + Len(fp) > 0
      THEN [ok |-> TRUE, val |-> IF s[1] = "-" THEN 0 - mag ELSE mag]
      ELSE [ok |-> FALSE, val |-> 0]

\* str(n) for a natural number
RECURSIVE Decimal(_)
Decimal(n) ==
  LET d == <<"0", "1", "2", "3", "4", "5", "6", "7", "8", "9">>[(n % 10) + 1]
  IN  IF n < 10 THEN <<d>> ELSE Decimal(n \div 10) \o <<d>>

\* datetime.isoformat() of the instant of the n-th line of the source
IsoFormat(n) == <<"t">> \o Decimal(n)

\* -------------------------------------------------------------------- deque

\* a deque that drops its newest entry when full
DequeAppend_EvictsNewest(q, x, cap) ==
  IF Len(q) >= cap THEN Append(SubSeq(q, 1, Len(q) - 1), x) ELSE Append(q, x)

\* deque(maxlen=cap).append(x): the oldest entry leaves a full deque
DequeAppend(q, x, cap) ==
  IF Len(q) >= cap THEN Append(Tail(q), x) ELSE Append(q, x)

\* sum(q): the first n members of q added up, then all of them
RECURSIVE SumTo(_, _)
SumTo(q, n) == IF n = 0 THEN 0 ELSE SumTo(q, n - 1) + q[n]

Sum(q) == SumTo(q, Len(q))

\* min(a, b) and max(a, b) of Python: the first argument wins a tie
PyMin(a, b) == IF b < a THEN b ELSE a

PyMax(a, b) == IF b > a THEN b ELSE a

\* --------------------------------------------------------------- statistics
\* mean_val is the exact quotient num/den.  std_dev is 0.0 ("zero") or the
\* population standard deviation of the values it was computed from.

Statistics ==
  [min_val |-> 0, max_val |-> 0, mean_val |-> [num |-> 0, den |-> 1],
   current_val |-> 0, std_dev |-> [kind |-> "zero", of |-> <<>>],
   count |-> 0, values |-> <<>>]

\* a count that stops growing once the window is full
StatBegin_CountIsWindowLength(st, key, value) ==
  LET stat == IF DictHas(st, key) THEN DictGet(st, key) ELSE Statistics
  IN  DictPut(st, key,
        [stat EXCEPT !.current_val = value,
                     !.count = IF Len(stat.values) < StatWindow THEN stat.count + 1
                               ELSE stat.count,
                     !.values = IF Len(stat.values) >= StatWindow
                                THEN Append(Tail(stat.values), value)
                                ELSE Append(stat.values, value)])

\* calculate_statistics up to values.append: the entry is created on first
\* sight, then current_val, count and the window are updated
StatBegin(st, key, value) ==
  LET stat == IF DictHas(st, key) THEN DictGet(st, key) ELSE Statistics
  IN  DictPut(st, key,
        [stat EXCEPT !.current_val = value,
                     !.count = stat.count + 1,
                     !.values = DequeAppend(stat.values, value, StatWindow)])

\* a mean that divides the sum of the window by the count of all values
StatFinish_MeanOverCount(st, key, value) ==
  LET stat == DictGet(st, key)
  IN  DictPut(st, key,
        IF stat.count = 1
        THEN [stat EXCEPT !.min_val = value, !.max_val = value,
                          !.mean_val = [num |-> value, den |-> 1],
                          !.std_dev = [kind |-> "zero", of |-> <<>>]]
        ELSE [stat EXCEPT !.min_val = PyMin(stat.min_val, value),
                          !.max_val = PyMax(stat.max_val, value),
                          !.mean_val = [num |-> Sum(stat.values), den |-> stat.count],
                          !.std_dev = IF Len(stat.values) > 1
                                      THEN [kind |-> "pstdev", of |-> stat.values]
                                      ELSE stat.std_dev])

\* min and max taken over the window instead of over the whole history
StatFinish_WindowMin(st, key, value) ==
  LET stat == DictGet(st, key)
      lo   == CHOOSE m \in {stat.values[i] : i \in 1..Len(stat.values)} :
                \A i \in 1..Len(stat.values) : m <= stat.values[i]
      hi   == CHOOSE m \in {stat.values[i] : i \in 1..Len(stat.values)} :
                \A i \in 1..Len(stat.values) : m >= stat.values[i]
  IN  DictPut(st, key,
        [stat EXCEPT !.min_val = lo, !.max_val = hi,
                     !.mean_val = [num |-> Sum(stat.values), den |-> Len(stat.values)],
                     !.std_dev = IF Len(stat.values) > 1
                                 THEN [kind |-> "pstdev", of |-> stat.values]
                                 ELSE [kind |-> "zero", of |-> <<>>]])

\* the rest of calculate_statistics: min, max, mean and standard deviation
StatFinish(st, key, value) ==
  LET stat == DictGet(st, key)
  IN  DictPut(st, key,
        IF stat.count = 1
        THEN [stat EXCEPT !.min_val = value, !.max_val = value,
                          !.mean_val = [num |-> value, den |-> 1],
                          !.std_dev = [kind |-> "zero", of |-> <<>>]]
        ELSE [stat EXCEPT !.min_val = PyMin(stat.min_val, value),
                          !.max_val = PyMax(stat.max_val, value),
                          !.mean_val = [num |-> Sum(stat.values), den |-> Len(stat.values)],
                          !.std_dev = IF Len(stat.values) > 1
                                      THEN [kind |-> "pstdev", of |-> stat.values]
                                      ELSE stat.std_dev])

calculate_statistics(st, key, value) == StatFinish(StatBegin(st, key, value), key, value)

\* ------------------------------------------------------------------- health
\* error_rate is the exact quotient num/den (a percentage).

HealthEntry == [status |-> "Unknown", error_rate |-> [num |-> 0, den |-> 1],
                last_good_reading |-> 0]

KnownParams == << <<"S">>, <<"S", "2">>, <<"D">>, <<"T">>, <<"H">>, <<"P">>,
                  <<"U">>, <<"V">>, <<"W">> >>

\* sensor_health as __init__ leaves it
InitialHealth == [i \in 1..Len(KnownParams) |-> <<KnownParams[i], HealthEntry>>]

\* a threshold that takes 100000 itself for a malfunction
GoodStatus_AtThreshold(parameter, value) ==
  IF parameter # <<>> /\ parameter[1] = "T" /\ value >= MalfunctionAbove THEN "Malfunction"
  ELSE IF parameter = <<"P">> /\ value = OfflineValue THEN "Offline"
  ELSE "Good"

\* the status update_sensor_health gives a reading that is not an error
GoodStatus(parameter, value) ==
  IF parameter # <<>> /\ parameter[1] = "T" /\ value > MalfunctionAbove THEN "Malfunction"
  ELSE IF parameter = <<"P">> /\ value = OfflineValue THEN "Offline"
  ELSE "Good"

\* a status that stays Error once it is Error
update_sensor_health_ErrorSticks(dq, parameter, value, is_error, now) ==
  LET sensor == IF DictHas(dq.sensor_health, parameter)
                THEN DictGet(dq.sensor_health, parameter) ELSE HealthEntry
      errs   == IF is_error THEN dq.error_count + 1 ELSE dq.error_count
      s1     == IF is_error \/ sensor.status = "Error"
                THEN [sensor EXCEPT !.status = "Error"]
                ELSE [sensor EXCEPT !.last_good_reading = now,
                                    !.status = GoodStatus(parameter, value)]
      s2     == IF dq.total_readings > 0
                THEN [s1 EXCEPT !.error_rate = [num |-> errs * 100, den |-> dq.total_readings]]
                ELSE s1
  IN  [dq EXCEPT !.error_count = errs,
                 !.last_error_time = IF is_error THEN now ELSE @,
                 !.sensor_health = DictPut(dq.sensor_health, parameter, s2)]

\* update_sensor_health on dq, the data_quality record; now is the instant
\* of the reading
update_sensor_health(dq, parameter, value, is_error, now) ==
  LET sensor == IF DictHas(dq.sensor_health, parameter)
                THEN DictGet(dq.sensor_health, parameter) ELSE HealthEntry
      errs   == IF is_error THEN dq.error_count + 1 ELSE dq.error_count
      s1     == IF is_error
                THEN [sensor EXCEPT !.status = "Error"]
                ELSE [sensor EXCEPT !.last_good_reading = now,
                                    !.status = GoodStatus(parameter, value)]
      s2     == IF dq.total_readings > 0
                THEN [s1 EXCEPT !.error_rate = [num |-> errs * 100, den |-> dq.total_readings]]
                ELSE s1
  IN  [dq EXCEPT !.error_count = errs,
                 !.last_error_time = IF is_error THEN now ELSE @,
                 !.sensor_health = DictPut(dq.sensor_health, parameter, s2)]

\* ------------------------------------------------------------ trend store

\* the trend store whose long speed buffer takes the 3D speed S only
update_trends_LongSpeedFromSOnly(tr, key, value) ==
  IF key = <<"S">>
  THEN [tr EXCEPT !.viz_data.wind_speed = DequeAppend(@, value, VizLen),
                  !.recent_wind_speeds = DequeAppend(@, value, RecentLen)]
  ELSE IF key = <<"S", "2">>
  THEN [tr EXCEPT !.viz_data.wind_speed = DequeAppend(@, value, VizLen)]
  ELSE IF key = <<"T">>
  THEN [tr EXCEPT !.viz_data.temperature = DequeAppend(@, value, VizLen)]
  ELSE IF key = <<"D">>
  THEN [tr EXCEPT !.viz_data.wind_direction = DequeAppend(@, value, VizLen),
                  !.recent_wind_directions = DequeAppend(@, value, RecentLen)]
  ELSE tr

\* the trend store with the direction kept in the short buffer only
update_trends_DirectionShortOnly(tr, key, value) ==
  IF key \in {<<"S">>, <<"S", "2">>}
  THEN [tr EXCEPT !.viz_data.wind_speed = DequeAppend(@, value, VizLen),
                  !.recent_wind_speeds = DequeAppend(@, value, RecentLen)]
  ELSE IF key = <<"T">>
  THEN [tr EXCEPT !.viz_data.temperature = DequeAppend(@, value, VizLen)]
  ELSE IF key = <<"D">>
  THEN [tr EXCEPT !.viz_data.wind_direction = DequeAppend(@, value, VizLen)]
  ELSE tr

\* the trend buffers after an accepted reading of key: tr = [viz_data,
\* recent_wind_speeds, recent_wind_directions]
update_trends(tr, key, value) ==
  IF key \in {<<"S">>, <<"S", "2">>}
  THEN [tr EXCEPT !.viz_data.wind_speed = DequeAppend(@, value, VizLen),
                  !.recent_wind_speeds = DequeAppend(@, value, RecentLen)]
  ELSE IF key = <<"T">>
  THEN [tr EXCEPT !.viz_data.temperature = DequeAppend(@, value, VizLen)]
  ELSE IF key = <<"D">>
  THEN [tr EXCEPT !.viz_data.wind_direction = DequeAppend(@, value, VizLen),
                  !.recent_wind_directions = DequeAppend(@, value, RecentLen)]
  ELSE tr

\* ---------------------------------------------------------- schema registry

\* a registry rebuilt from the keys of the line at hand
ObserveColumns_FromThisLine(columns, parsed) ==
  <<columns[1]>> \o [i \in 1..Len(parsed) |-> parsed[i][1]]

\* update_csv_columns: the columns after the keys of parsed are observed
RECURSIVE ObserveColumns(_, _)
ObserveColumns(columns, parsed) ==
  IF parsed = <<>> THEN columns
  ELSE LET key == Head(parsed)[1]
       IN  ObserveColumns(IF Contains(columns, key) THEN columns ELSE Append(columns, key),
                          Tail(parsed))

Timestamp == <<"t", "i", "m", "e", "s", "t", "a", "m", "p">>

\* ','.join(fields) + '\n'
RECURSIVE Join(_)
Join(fields) ==
  IF fields = <<>> THEN <<"\n">>
  ELSE IF Len(fields) = 1 THEN Head(fields) \o <<"\n">>
  ELSE Head(fields) \o <<",">> \o Join(Tail(fields))

\* a row that lists the fields of the line, in the order of the line
RowFor_FieldsOfTheLine(columns, timestamp, parsed) ==
  <<IsoFormat(timestamp)>> \o [i \in 1..Len(parsed) |-> parsed[i][2]]

\* write_csv_row: one field per column, "" for a column the line lacks
RowFor(columns, timestamp, parsed) ==
  [i \in 1..Len(columns) |->
     IF columns[i] = Timestamp THEN IsoFormat(timestamp)
     ELSE IF DictHas(parsed, columns[i]) THEN DictGet(parsed, columns[i]) ELSE <<>>]

\* --------------------------------------------------------------- checkpoint

\* the rows save_final_statistics writes: one per tracked parameter
CheckpointRows(st, timestamp) ==
  [i \in 1..Len(st) |->
     [timestamp |-> timestamp, parameter |-> st[i][1],
      min |-> st[i][2].min_val, max |-> st[i][2].max_val,
      mean |-> st[i][2].mean_val, std_dev |-> st[i][2].std_dev,
      count |-> st[i][2].count]]

\* --------------------------------------------------------------- the source
\* The lines the serial port delivers, as readline().decode() returns them.

Lines ==
  << <<"S", " ", "1", ".", "5", "0", " ", "D", " ", "3", "5", "0", "\r", "\n">>,
     <<"S", " ", "-", "9", "9", ".", "5", "0", " ", "P", " ", "-", "9", "9", ".", "7", "0", "\n">>,
     <<"T", " ", "1", "0", "0", "0", "0", "1", " ", "H", " ", "x", "\n">>,
     <<"S", " ", "0", ".", "5", "0", ",", "D", " ", "1", "0", "\n">>,
     <<"o", "k", "\n">>,
     <<" ", "\r", "\n">> >>

LineIds == 1..Len(Lines)

\* Lines for the health classifier: one reading of each class, the
\* threshold itself, a line with two errors, a temperature-prefixed key.
HealthLines ==
  << <<"T", " ", "1", "5", "0", "0", "0", "0", "\n">>,
     <<"T", " ", "-", "9", "9", ".", "5", "0", "\n">>,
     <<"T", " ", "1", "0", "0", "0", "0", "0", "\n">>,
     <<"P", " ", "-", "9", "9", ".", "7", "0", "\n">>,
     <<"H", " ", "4", "5", ".", "2", " ", "P", " ", "1", "5", "0", "0", "0", "0", "\n">>,
     <<"P", " ", "-", "9", "9", ".", "5", "0", " ", "H", " ", "x", "\n">>,
     <<"T", "2", " ", "1", "0", "0", "0", "0", "0", ".", "0", "1", " ",
       "D", " ", "-", "9", "9", ".", "7", "0", "\n">> >>

HealthLineIds == (Len(Lines) + 1)..(Len(Lines) + Len(HealthLines))

\* Lines for the decoder: the nine parameters of the sensor; a field that is
\* no number before one that is, and an unpaired last token; comma pieces
\* with two spaces, without a space, with blanks around and a tab before the
\* space, and with a tab for a space; a line of one comma; a key that comes
\* twice.
DecodeLines ==
  << <<"S", " ", "1", "2", ".", "3", "4", " ", "S", "2", " ", "1", "1", ".", "8", "9",
       " ", "D", " ", "1", "8", "0", " ", "U", " ", "0", ".", "5", " ", "V", " ", "-",
       "0", ".", "3", " ", "W", " ", "0", ".", "1", " ", "T", " ", "2", "3", ".", "5",
       " ", "H", " ", "4", "5", ".", "2", " ", "P", " ", "1", "0", "1", "3", ".", "2",
       "\n">>,
     <<"H", " ", "x", " ", "S", " ", "1", ".", "5", "0", " ", "D", "\n">>,
     <<"S", " ", " ", "0", ".", "5", "0", ",", "b", "a", "d", ",", " ", "D", "\t", " ",
       "1", "0", " ", ",", "T", "\t", "1", ",", "H", " ", "x", "\r", "\n">>,
     <<",", "\n">>,
     <<"S", " ", "1", " ", "T", " ", "2", " ", "S", " ", "3", "\n">> >>

DecodeLineIds ==
  (Len(Lines) + Len(HealthLines) + 1)..(Len(Lines) + Len(HealthLines) + Len(DecodeLines))

\* A line for the trend store: two wind speeds and a direction.
TrendLine ==
  <<"S", " ", "1", " ", "S", "2", " ", "2", " ", "D", " ", "9", "\n">>

TrendLineId == Len(Lines) + Len(HealthLines) + Len(DecodeLines) + 1

\* Lines for the wind panel: four directions, and a line without one.
DirLines ==
  << <<"S", " ", "1", ".", "5", "0", " ", "D", " ", "3", "5", "0", "\n">>,
     <<"S", " ", "0", ".", "5", "0", " ", "D", " ", "1", "0", "\n">>,
     <<"S", " ", "1", ".", "5", "0", " ", "D", " ", "1", "9", "0", "\n">>,
     <<"S", " ", "0", ".", "5", "0", " ", "D", " ", "3", "6", "0", "\n">>,
     <<"S", " ", "1", ".", "5", "0", "\n">> >>

DirLineIds == (TrendLineId + 1)..(TrendLineId + Len(DirLines) - 1)

DirFillerId == TrendLineId + Len(DirLines)

\* the text of a line
LineText(id) ==
  IF id <= Len(Lines) THEN Lines[id]
  ELSE IF id <= Len(Lines) + Len(HealthLines) THEN HealthLines[id - Len(Lines)]
  ELSE IF id <= Len(Lines) + Len(HealthLines) + Len(DecodeLines)
  THEN DecodeLines[id - Len(Lines) - Len(HealthLines)]
  ELSE IF id = TrendLineId THEN TrendLine
  ELSE DirLines[id - TrendLineId]

\* A source delivers n lines and then nothing.  A scripted source delivers
\* pre, then pat again and again; a free source (no pattern) delivers any
\* of the lines `any`.
FreeScript == [pre |-> <<>>, pat |-> <<>>, any |-> LineIds, n |-> FreeLines]

FairScript == [pre |-> <<>>, pat |-> <<>>, any |-> LineIds, n |-> FairLines]

HealthScript == [pre |-> <<>>, pat |-> <<>>, any |-> HealthLineIds, n |-> HealthRun]

DecodeScript == [pre |-> <<>>, pat |-> <<>>, any |-> DecodeLineIds, n |-> DecodeRun]

\* one or two lines with a direction, then lines without one
DirScripts ==
  { [pre |-> p, pat |-> <<DirFillerId>>, any |-> {}, n |-> DirRun] :
      p \in {<<a>> : a \in DirLineIds} \cup {<<a, b>> : a \in DirLineIds, b \in DirLineIds} }

HistoryScript == [pre |-> <<4>>, pat |-> <<5>>, any |-> {}, n |-> HistoryRun]

TrendScript == [pre |-> <<4>>, pat |-> <<TrendLineId>>, any |-> {}, n |-> TrendRun]

LongScripts ==
  { [pre |-> <<4>>, pat |-> <<1>>, any |-> {}, n |-> LongRun],
    [pre |-> <<>>,  pat |-> <<1, 4, 2>>, any |-> {}, n |-> LongRun] }

\* the lines the source may deliver next, after it has delivered n
NextLines(sc, n) ==
  IF n >= sc.n THEN {}
  ELSE IF sc.pat = <<>> THEN sc.any
  ELSE IF n < Len(sc.pre) THEN {sc.pre[n + 1]}
  ELSE {sc.pat[((n - Len(sc.pre)) % Len(sc.pat)) + 1]}

\* ------------------------------------------------------------ archived logs
\* DataVis.py reads a log file back. A file is [readable, lines]: whether
\* it can be opened and decoded, and its lines without their line ends.

TimeName == <<"T", "i", "m", "e">>

TimestampName == <<"T", "i", "m", "e", "s", "t", "a", "m", "p">>

ParsedJson == <<"p", "a", "r", "s", "e", "d", "_", "j", "s", "o", "n">>

\* sub in s
HasText(s, sub) ==
  \E i \in 0..(Len(s) - Len(sub)) : SubSeq(s, i + 1, i + Len(sub)) = sub

\* the first place at or after i of s that holds no whitespace
RECURSIVE SkipSpaces(_, _)
SkipSpaces(s, i) == IF i <= Len(s) /\ IsSpace(s[i]) THEN SkipSpaces(s, i + 1) ELSE i

\* the places of s where re.match(r'\[(.*?)\]\s*,', s) can close the bracket
TagEnds(s) ==
  IF s = <<>> \/ s[1] # "[" THEN {}
  ELSE {j \in 2..Len(s) :
          /\ s[j] = "]"
          /\ SkipSpaces(s, j + 1) <= Len(s)
          /\ s[SkipSpaces(s, j + 1)] = ","}

\* re.match(r'\[(.*?)\]\s*,', s)
MatchesTagged(s) == TagEnds(s) # {}

\* f.readline().strip() for the n-th line, '' past the end of the file
StrippedLine(f, n) == IF n <= Len(f.lines) THEN Strip(f.lines[n]) ELSE <<>>

\* format detection with the bracket rule tried before the comma rule
detect_log_format_TaggedFirst(f) ==
  IF ~f.readable THEN "unknown"
  ELSE LET first_line  == StrippedLine(f, 1)
           second_line == StrippedLine(f, 2)
       IN  IF MatchesTagged(first_line) \/ MatchesTagged(second_line) THEN "tagged"
           ELSE IF /\ Contains(first_line, ",")
                   /\ (HasText(first_line, TimeName) \/ HasText(first_line, Timestamp))
           THEN "csv"
           ELSE IF HasText(first_line, ParsedJson) THEN "json"
           ELSE "unknown"

\* detect_log_format: "csv", "tagged", "json" or "unknown"
detect_log_format(f) ==
  IF ~f.readable THEN "unknown"
  ELSE LET first_line  == StrippedLine(f, 1)
           second_line == StrippedLine(f, 2)
       IN  IF /\ Contains(first_line, ",")
              /\ (HasText(first_line, TimeName) \/ HasText(first_line, Timestamp))
           THEN "csv"
           ELSE IF MatchesTagged(first_line) \/ MatchesTagged(second_line) THEN "tagged"
           ELSE IF HasText(first_line, ParsedJson) THEN "json"
           ELSE "unknown"

\* the explicit no-data result of a parser, and a record set: the name of
\* its index, its columns and the number of its rows
NoData == [ok |-> FALSE, index |-> <<>>, columns |-> <<>>, rows |-> 0]

\* the cells of a line of comma-separated values, from place i on: a cell in
\* double quotes may hold commas, and a doubled quote stands for a quote
RECURSIVE CsvScan(_, _, _, _, _)
CsvScan(s, i, quoted, cell, cells) ==
  IF i > Len(s) THEN Append(cells, cell)
  ELSE IF quoted
  THEN IF s[i] = "\""
       THEN IF i < Len(s) /\ s[i + 1] = "\""
            THEN CsvScan(s, i + 2, TRUE, Append(cell, "\""), cells)
            ELSE CsvScan(s, i + 1, FALSE, cell, cells)
       ELSE CsvScan(s, i + 1, TRUE, Append(cell, s[i]), cells)
  ELSE IF s[i] = "," THEN CsvScan(s, i + 1, FALSE, <<>>, Append(cells, cell))
  ELSE IF s[i] = "\"" /\ cell = <<>> THEN CsvScan(s, i + 1, TRUE, cell, cells)
  ELSE CsvScan(s, i + 1, FALSE, Append(cell, s[i]), cells)

CsvCells(s) == CsvScan(s, 1, FALSE, <<>>, <<>>)

NonBlank(l) == l # <<>>

\* pd.read_csv: the first line that is not blank names the columns, every
\* later one is a row (of at most as many cells as there are columns); an
\* unreadable or empty file raises
read_csv(f) ==
  LET data == SelectSeq(f.lines, NonBlank)
  IN  IF ~f.readable \/ data = <<>>
      THEN [ok |-> FALSE, columns |-> <<>>, rows |-> <<>>]
      ELSE [ok |-> TRUE, columns |-> CsvCells(data[1]),
            rows |-> [i \in 1..(Len(data) - 1) |-> CsvCells(data[i + 1])]]

\* the k-th cell of a row, empty (missing) when the row is shorter
CellOf(row, k) == IF k <= Len(row) THEN row[k] ELSE <<>>

\* pd.to_datetime(errors='coerce') gives a date: a text that begins with a
\* digit stands for one that parses, any other cell is dropped with its row
ValidTimestamp(c) == c # <<>> /\ IsDigit(c[1])

\* the sequence q without its k-th member
Without(q, k) == SubSeq(q, 1, k - 1) \o SubSeq(q, k + 1, Len(q))

\* the timestamp column among the columns of a csv file: the first of Time,
\* timestamp and Timestamp that is one of them, <<>> when none is
timestamp_col(columns) ==
  IF Contains(columns, TimeName) THEN TimeName
  ELSE IF Contains(columns, Timestamp) THEN Timestamp
  ELSE IF Contains(columns, TimestampName) THEN TimestampName
  ELSE <<>>

\* the rows whose cell in column k, the timestamp, parses
CsvDated(rows, k) == SelectSeq(rows, LAMBDA row : ValidTimestamp(CellOf(row, k)))

\* pd.to_numeric(errors='coerce') on the n columns of the rows: a cell is a
\* number, or missing ([ok |-> FALSE]) when it holds no numeral
CsvNumeric(rows, n) ==
  [i \in 1..Len(rows) |-> [c \in 1..n |-> ToFloat(CellOf(rows[i], c))]]

wind_speed_cols == << <<"S">>, <<"S", "2">>, <<"S", "3">> >>

\* the error value filtered from the wind-speed columns, -99.50, in hundredths
FilteredValue == -9950

\* a missing cell
Missing == [ok |-> FALSE, val |-> 0]

\* df.loc[df[col] == -99.50, col] = pd.NA for each wind-speed column
CsvFiltered(numeric, columns) ==
  [i \in 1..Len(numeric) |->
     [c \in 1..Len(columns) |->
        IF /\ Contains(wind_speed_cols, columns[c])
           /\ numeric[i][c] = [ok |-> TRUE, val |-> FilteredValue]
        THEN Missing
        ELSE numeric[i][c]]]

\* the cells of the table read from a csv file, whose timestamp column is
\* its k-th, after the three steps above
CsvCleaned(t, k) == CsvFiltered(CsvNumeric(CsvDated(t.rows, k), Len(t.columns)), t.columns)

\* the counts parse_csv_log prints, one for each wind-speed column among
\* the columns: (df[col] == -99.50).sum(), taken after the cells were rewritten
CsvCounts(filtered, columns, present) ==
  [n \in 1..Len(present) |->
     <<present[n],
       Cardinality({i \in 1..Len(filtered) :
                      filtered[i][IndexOf(columns, present[n])]
                        = [ok |-> TRUE, val |-> FilteredValue]})>>]

\* what parse_csv_log prints for the table read from the file
CsvReported(t) ==
  IF ~t.ok \/ timestamp_col(t.columns) = <<>> THEN <<>>
  ELSE CsvCounts(CsvCleaned(t, IndexOf(t.columns, timestamp_col(t.columns))), t.columns,
                 SelectSeq(wind_speed_cols, LAMBDA col : Contains(t.columns, col)))

csv_reported(f) == CsvReported(read_csv(f))

\* the record set of cleaned cells: the timestamp column, the k-th, is the index
CsvFrame(index, columns, k, filtered) ==
  [ok |-> TRUE, index |-> index, columns |-> Without(columns, k),
   rows |-> Len(filtered),
   cells |-> [i \in 1..Len(filtered) |-> Without(filtered[i], k)]]

\* what parse_csv_log returns for the table read from the file
CsvParsed(t) ==
  IF ~t.ok \/ timestamp_col(t.columns) = <<>> THEN NoData
  ELSE CsvFrame(timestamp_col(t.columns), t.columns,
                IndexOf(t.columns, timestamp_col(t.columns)),
                CsvCleaned(t, IndexOf(t.columns, timestamp_col(t.columns))))

\* parse_csv_log: the columns of the header but the timestamp column, which
\* is the index, the rows whose timestamp parses and their cells
parse_csv_log(f) == CsvParsed(read_csv(f))

\* a JSON string without escapes, and a JSON number
IsJsonString(x) ==
  /\ Len(x) >= 2 /\ x[1] = "\"" /\ x[Len(x)] = "\""
  /\ \A i \in 2..(Len(x) - 1) : x[i] # "\""

IsJsonNumber(x) == ToFloat(x).ok /\ x[1] # "+"

\* the members of the JSON object text t, which has no nested value and no
\* comma or colon in a string
JsonMembers(t) ==
  IF Strip(SubSeq(t, 2, Len(t) - 1)) = <<>> THEN <<>>
  ELSE SplitOn(SubSeq(t, 2, Len(t) - 1), ",")

JsonMemberOk(m) ==
  /\ Len(SplitOn(m, ":")) = 2
  /\ IsJsonString(Strip(SplitOn(m, ":")[1]))
  /\ \/ IsJsonString(Strip(SplitOn(m, ":")[2]))
     \/ IsJsonNumber(Strip(SplitOn(m, ":")[2]))

JsonMemberKey(m) ==
  SubSeq(Strip(SplitOn(m, ":")[1]), 2, Len(Strip(SplitOn(m, ":")[1])) - 1)

\* json.loads(cell): an "object" with its keys, some "other" JSON value, or
\* "malformed" text (JSONDecodeError)
JsonDecode(cell) ==
  LET t == Strip(cell)
      members == JsonMembers(t)
  IN  IF /\ Len(t) >= 2 /\ t[1] = "{" /\ t[Len(t)] = "}"
         /\ \A i \in 1..Len(members) : JsonMemberOk(members[i])
      THEN [kind |-> "object", keys |-> [i \in 1..Len(members) |-> JsonMemberKey(members[i])]]
      ELSE IF IsJsonNumber(t) \/ IsJsonString(t) THEN [kind |-> "other", keys |-> <<>>]
      ELSE [kind |-> "malformed", keys |-> <<>>]

\* columns with the keys not yet among them added in the order they come
RECURSIVE AddColumns(_, _)
AddColumns(columns, keys) ==
  IF keys = <<>> THEN columns
  ELSE AddColumns(IF Contains(columns, Head(keys)) THEN columns
                  ELSE Append(columns, Head(keys)), Tail(keys))

\* pd.DataFrame(parsed_data).columns: the keys of the rows, first seen first
RECURSIVE FrameColumns(_, _)
FrameColumns(columns, rows) ==
  IF rows = <<>> THEN columns
  ELSE FrameColumns(AddColumns(columns, Head(rows)), Tail(rows))

IsObject(d) == d.kind = "object"

\* parse_json_log: the file is read as comma-separated values and needs the
\* columns timestamp and parsed_json; of the rows whose timestamp parses,
\* those whose payload is malformed are skipped, a missing payload cell
\* (TypeError) or a payload that is no object (AttributeError) ends the
\* parse in the outer handler, and the keys of the payloads become columns
parse_json_log(f) ==
  LET t    == read_csv(f)
      kt   == IndexOf(t.columns, Timestamp)
      kp   == IndexOf(t.columns, ParsedJson)
      Dated(row) == ValidTimestamp(CellOf(row, kt))
      Payload(row) ==
        IF CellOf(row, kp) = <<>> THEN [kind |-> "missing", keys |-> <<>>]
        ELSE JsonDecode(CellOf(row, kp))
      dated   == SelectSeq(t.rows, Dated)
      decoded == [i \in 1..Len(dated) |-> Payload(dated[i])]
      objects == SelectSeq(decoded, IsObject)
  IN  IF ~t.ok \/ kt = 0 \/ kp = 0 THEN NoData
      ELSE IF \E i \in 1..Len(decoded) : decoded[i].kind \in {"missing", "other"}
      THEN NoData
      ELSE IF objects = <<>> THEN NoData
      ELSE [ok |-> TRUE, index |-> Timestamp,
            columns |-> SelectSeq(FrameColumns(<<Timestamp>>,
                                               [i \in 1..Len(objects) |-> objects[i].keys]),
                                  LAMBDA c : c # Timestamp),
            rows |-> Len(objects)]

ModeWord == <<"M", "o", "d", "e">>

OverridingWord == <<"o", "v", "e", "r", "r", "i", "d", "i", "n", "g">>

\* the lines of a tagged file that give a row: re.match(r'\[(.*?)\]\s*,(.*)')
TaggedLine(l) ==
  /\ ~(HasText(l, ModeWord) /\ HasText(l, OverridingWord))
  /\ MatchesTagged(l)

\* the place where the lazy group of the match closes
TagEnd(l) == CHOOSE j \in TagEnds(l) : \A k \in TagEnds(l) : j <= k

\* row_data of the pairs from the n-th on: a pair gives a key when
\* re.split(r'\s+', pair.strip(), maxsplit=1) gives two parts
RECURSIVE TaggedRow(_, _, _)
TaggedRow(row, pairs, n) ==
  IF n > Len(pairs) THEN row
  ELSE IF FirstSpace(Strip(pairs[n])) = 0 THEN TaggedRow(row, pairs, n + 1)
  ELSE TaggedRow(DictPut(row,
                         SubSeq(Strip(pairs[n]), 1, FirstSpace(Strip(pairs[n])) - 1),
                         LStrip(SubSeq(Strip(pairs[n]), FirstSpace(Strip(pairs[n])) + 1,
                                       Len(Strip(pairs[n]))))),
                 pairs, n + 1)

\* row_data of a tagged line
TaggedRowOf(l) ==
  TaggedRow(<< <<TimestampName, SubSeq(l, 2, TagEnd(l) - 1)>> >>,
            SplitOn(Strip(SubSeq(l, SkipSpaces(l, TagEnd(l) + 1) + 1, Len(l))), ","), 1)

RowKeys(row) == [i \in 1..Len(row) |-> row[i][1]]

DatedRow(row) == ValidTimestamp(DictGet(row, TimestampName))

\* the cells of the rows made numbers (pd.to_numeric(errors='coerce')):
\* missing where the row has no such key or its text is no numeral
TaggedCells(rows, columns) ==
  [i \in 1..Len(rows) |->
     [c \in 1..Len(columns) |->
        IF DictHas(rows[i], columns[c]) THEN ToFloat(DictGet(rows[i], columns[c]))
        ELSE Missing]]

\* pd.DataFrame(parsed_data) with the timestamp as index: the keys of the
\* pairs as columns and the rows kept whose timestamp parses
TaggedFrame(columns, rows) ==
  [ok |-> TRUE, index |-> TimestampName, columns |-> columns, rows |-> Len(rows),
   cells |-> TaggedCells(rows, columns)]

\* what parse_tagged_log makes of its list of rows
TaggedParsed(parsed_data) ==
  IF parsed_data = <<>> THEN NoData
  ELSE TaggedFrame(SelectSeq(FrameColumns(<<>>, [i \in 1..Len(parsed_data) |->
                                                  RowKeys(parsed_data[i])]),
                             LAMBDA c : c # TimestampName),
                   SelectSeq(parsed_data, DatedRow))

\* the rows of the tagged lines
TaggedRows(tagged) == [i \in 1..Len(tagged) |-> TaggedRowOf(tagged[i])]

\* parse_tagged_log: a row per tagged line, the keys of the pairs as columns,
\* the rows kept whose timestamp parses, and their cells
parse_tagged_log(f) ==
  IF ~f.readable THEN NoData
  ELSE TaggedParsed(TaggedRows(SelectSeq(f.lines, TaggedLine)))

\* parse_trisonica_log: the format detected, the parser it gives the file
\* to and what that parser returns
parse_trisonica_log(f) ==
  LET fmt == detect_log_format(f)
  IN  [log_format |-> fmt,
       reported |-> IF fmt = "csv" THEN csv_reported(f) ELSE <<>>,
       parser |-> IF fmt = "unknown" THEN "none" ELSE fmt,
       df |-> IF fmt = "csv" THEN parse_csv_log(f)
              ELSE IF fmt = "json" THEN parse_json_log(f)
              ELSE IF fmt = "tagged" THEN parse_tagged_log(f)
              ELSE NoData]

\* first lines of the files read back
FirstLines ==
  << <<"t", "i", "m", "e", "s", "t", "a", "m", "p", ",", "S">>,
     <<"t", "i", "m", "e", "s", "t", "a", "m", "p", ",", "p", "a", "r", "s", "e", "d",
       "_", "j", "s", "o", "n">>,
     <<"[", "t", "1", "]", ",", "T", "i", "m", "e", " ", "1">>,
     <<"[", "2", "0", "2", "4", "-", "0", "1", "-", "0", "1", "]", ",", " ", "S", " ",
       "1", ".", "5">>,
     <<"M", "o", "d", "e", " ", "o", "v", "e", "r", "r", "i", "d", "i", "n", "g">>,
     <<"p", "a", "r", "s", "e", "d", "_", "j", "s", "o", "n">>,
     <<"t", "i", "m", "e", ",", "p", "a", "r", "s", "e", "d", "_", "j", "s", "o", "n">>,
     <<"S", " ", "1", ".", "5", " ", "D", " ", "1", "0">>,
     <<"[", "x", "]", " ", "S", " ", "1">>,
     <<"T", "i", "m", "e", ",", "a", "/", "b">> >>

\* lines that follow the first
RowLines ==
  << <<"2", "0", "2", "4", "-", "0", "1", "-", "0", "1", ",", "1", ".", "5">>,
     <<"2", "0", "2", "4", "-", "0", "1", "-", "0", "1", ",", "\"", "{", "\"", "\"",
       "S", "\"", "\"", ":", " ", "1", ".", "5", ",", " ", "\"", "\"", "T", "\"", "\"",
       ":", " ", "2", "0", "}", "\"">>,
     <<"[", "2", "0", "2", "4", "-", "0", "1", "-", "0", "2", "]", ",", " ", "S", " ",
       "2", ".", "5">>,
     <<"[", "2", "0", "2", "4", "-", "0", "1", "-", "0", "3", "]", " ", "S", " ", "1",
       ".", "5">>,
     <<"2", "0", "2", "4", "-", "0", "1", "-", "0", "1", ",", "{", "b", "a", "d">>,
     <<"2", "0", "2", "4", "-", "0", "1", "-", "0", "2", ",">>,
     <<"2", "0", "2", "4", "-", "0", "1", "-", "0", "3", ",", "5">>,
     <<"2", "0", "2", "4", "-", "0", "1", "-", "0", "4", ",", "-", "9", "9", ".", "5", "0">> >>

\* the rows of a file: up to FileRows of the lines that follow the first
RowChoices == UNION {[1..n -> 1..Len(RowLines)] : n \in 0..FileRows}

\* the files read back: one that cannot be read, an empty one, and every
\* first line followed by every choice of rows
Files ==
  {[readable |-> FALSE, lines |-> <<>>], [readable |-> TRUE, lines |-> <<>>]}
  \cup {[readable |-> TRUE,
         lines |-> <<FirstLines[a]>> \o [i \in 1..Len(c) |-> RowLines[c[i]]]] :
          a \in 1..Len(FirstLines), c \in RowChoices}

\* the columns of a record set that get a time-series plot: those with a
\* cell that is not missing (save_time_series_plot skips the others)
Plotted(frame) ==
  {c \in 1..Len(frame.columns) : \E i \in 1..Len(frame.cells) : frame.cells[i][c].ok}

\* process_single_file: "false" when the parser gives no record set; else
\* the plots are written, each time-series plot to a file named after its
\* column, and savefig raises when that name holds a path separator (the
\* directory it names does not exist): "raised"; else "true". A record set
\* here comes from the csv or the tagged parser.
process_single_file(frame) ==
  IF ~frame.ok THEN "false"
  ELSE IF \E c \in Plotted(frame) : Contains(frame.columns[c], "/") THEN "raised"
  ELSE "true"

\* the files of a batch: one that cannot be read, one of no known format,
\* a csv file, a csv file with a column named a/b, a tagged file, a file in
\* the json encoding and one whose only column is parsed_json
BatchFiles ==
  {[readable |-> FALSE, lines |-> <<>>],
   [readable |-> TRUE, lines |-> <<FirstLines[8]>>],
   [readable |-> TRUE, lines |-> <<FirstLines[1], RowLines[1]>>],
   [readable |-> TRUE, lines |-> <<FirstLines[10], RowLines[1]>>],
   [readable |-> TRUE, lines |-> <<FirstLines[4], RowLines[3]>>],
   [readable |-> TRUE, lines |-> <<FirstLines[2], RowLines[2]>>],
   [readable |-> TRUE, lines |-> <<FirstLines[6], RowLines[2]>>]}

\* files_to_process: up to BatchLen of these files, in any order
Batches == UNION {[1..n -> BatchFiles] : n \in 0..BatchLen}

\* -------------------------------------------------------------------- state

VARIABLES
  pc,                   \* where run() stands
  running,              \* self.running
  result,               \* what run() returned: "none", "true", "false", "raised"
  serial_open,          \* self.serial_port is an open port
  log_open,             \* self.log_file is open
  stats_open,           \* self.stats_file is open
  script,               \* the source: its script
  sent,                 \* the source: lines delivered so far
  signals,              \* termination signals delivered so far
  cur,                  \* read_serial_data's locals: line, timestamp, parsed, field index
  csv_columns,
  csv_headers_written,
  log_file,             \* the lines written to the data log
  log_flushed,          \* how many of them are flushed
  data_quality,         \* total_readings, error_count, last_error_time, sensor_health
  stats,
  trends,               \* viz_data, recent_wind_speeds, recent_wind_directions
  point_count,
  data_points,
  stats_file,           \* the rows written to the statistics log, after its header
  checkpoints,          \* history: every call of save_final_statistics that wrote
  fed,                  \* history: per parameter, the values passed to calculate_statistics
  file,                 \* DataVis: the file given to parse_trisonica_log
  vis_pc,               \* DataVis: "idle", "call" or "done"
  log_format,           \* DataVis: what detect_log_format returned
  parser,               \* DataVis: the parser the file was given to
  df,                   \* DataVis: what parse_trisonica_log returned
  reported,             \* DataVis: the counts of filtered error values printed
  batch,                \* DataVis: files_to_process of main()
  processed,            \* DataVis: how many of them the loop of main() has taken
  success_count,        \* DataVis: success_count of main()
  yielded               \* history: how many of them gave a record set

batching == <<batch, processed, success_count, yielded>>

archive == <<file, vis_pc, log_format, parser, df, reported, batching>>

session ==
  <<pc, running, result, serial_open, log_open, stats_open, script, sent, signals, cur,
    csv_columns, csv_headers_written, log_file, log_flushed, data_quality, stats, trends,
    point_count, data_points, stats_file, checkpoints, fed>>

vars == <<session, archive>>

handles == <<serial_open, log_open, stats_open>>

source == <<script, sent>>

logging == <<csv_columns, csv_headers_written, log_file, log_flushed>>

analytics == <<data_quality, stats, trends, fed>>

NoLine == [line |-> <<>>, timestamp |-> 0, parsed |-> <<>>, i |-> 0]

\* the state __init__ leaves: both logs open, the signal handlers installed;
\* sc is the script of the source
Constructed(sc) ==
  /\ pc = "start"
  /\ running = FALSE
  /\ result = "none"
  /\ serial_open = FALSE
  /\ log_open = TRUE
  /\ stats_open = save_statistics
  /\ script = sc
  /\ sent = 0
  /\ signals = 0
  /\ cur = NoLine
  /\ csv_columns = <<Timestamp>>
  /\ csv_headers_written = FALSE
  /\ log_file = <<>>
  /\ log_flushed = 0
  /\ data_quality = [total_readings |-> 0, error_count |-> 0, last_error_time |-> 0,
                     sensor_health |-> InitialHealth]
  /\ stats = <<>>
  /\ trends = [viz_data |-> [wind_speed |-> <<>>, temperature |-> <<>>,
                             wind_direction |-> <<>>, timestamps |-> <<>>],
               recent_wind_speeds |-> <<>>, recent_wind_directions |-> <<>>]
  /\ point_count = 0
  /\ data_points = <<>>
  /\ stats_file = <<>>
  /\ checkpoints = <<>>
  /\ fed = <<>>

\* no file is being read back
NoArchive ==
  /\ file = [readable |-> FALSE, lines |-> <<>>]
  /\ vis_pc = "idle"
  /\ log_format = "none"
  /\ parser = "none"
  /\ df = NoData
  /\ reported = <<>>
  /\ batch = <<>>
  /\ processed = 0
  /\ success_count = 0
  /\ yielded = 0

\* a session of the logger, from the state __init__ leaves
InitWith(sc) == Constructed(sc) /\ NoArchive

Init == \E sc \in {FreeScript} \cup LongScripts : InitWith(sc)

\* ------------------------------------------------------------------ actions

\* save_final_statistics, called by `by` ("signal" or "periodic"): the rows
\* of every tracked parameter; the history records the call, the point
\* count and the place of its rows in the statistics log
SaveFinalStatistics(by, count) ==
  /\ stats_file' = stats_file \o CheckpointRows(stats, sent)
  /\ checkpoints' = Append(checkpoints,
       [by |-> by, at |-> count, pc |-> pc,
        first |-> Len(stats_file) + 1, last |-> Len(stats_file) + Len(stats)])

\* a run() that does not look at what connect_serial returned
Connect_IgnoresFailure ==
  /\ pc = "start"
  /\ \E ok \in BOOLEAN :
       /\ serial_open' = ok
       /\ pc' = "connected"
       /\ result' = result
  /\ UNCHANGED <<running, log_open, stats_open, source, signals, cur, logging, analytics,
                 point_count, data_points, stats_file, checkpoints>>
  /\ UNCHANGED archive

\* run(): connect_serial; a failed acquisition returns False at once
Connect ==
  /\ pc = "start"
  /\ \E ok \in BOOLEAN :
       IF ok
       THEN /\ serial_open' = TRUE
            /\ pc' = "connected"
            /\ result' = result
       ELSE /\ serial_open' = FALSE
            /\ pc' = "stopped"
            /\ result' = "false"
  /\ UNCHANGED <<running, log_open, stats_open, source, signals, cur, logging, analytics,
                 point_count, data_points, stats_file, checkpoints>>
  /\ UNCHANGED archive

\* run(): the display is set up and self.running = True
EnterLoop ==
  /\ pc = "connected"
  /\ running' = TRUE
  /\ pc' = "test"
  /\ UNCHANGED <<result, handles, source, signals, cur, logging, analytics,
                 point_count, data_points, stats_file, checkpoints>>
  /\ UNCHANGED archive

\* a loop that tests the flag only before its first tick
LoopTest_IgnoresFlag ==
  /\ pc = "test"
  /\ pc' = IF running \/ point_count > 0 THEN "read" ELSE "close_serial"
  /\ UNCHANGED <<running, result, handles, source, signals, cur, logging, analytics,
                 point_count, data_points, stats_file, checkpoints>>
  /\ UNCHANGED archive

\* run(): while self.running; leaving the loop enters cleanup()
LoopTest ==
  /\ pc = "test"
  /\ pc' = IF running THEN "read" ELSE "close_serial"
  /\ UNCHANGED <<running, result, handles, source, signals, cur, logging, analytics,
                 point_count, data_points, stats_file, checkpoints>>
  /\ UNCHANGED archive

\* read_serial_data: readline() times out, or the port is not open: None;
\* then update_display and the sleep
ReadNothing ==
  /\ pc = "read"
  /\ pc' = "test"
  /\ UNCHANGED <<running, result, handles, source, signals, cur, logging, analytics,
                 point_count, data_points, stats_file, checkpoints>>
  /\ UNCHANGED archive

\* read_serial_data: readline() returns a line; a line that strips to
\* nothing is None, any other is parsed
ReadLine ==
  /\ pc = "read"
  /\ serial_open
  /\ \E id \in NextLines(script, sent) :
       LET line == Strip(LineText(id))
       IN  /\ sent' = sent + 1
           /\ IF line = <<>>
              THEN /\ pc' = "test"
                   /\ cur' = cur
              ELSE /\ pc' = "row"
                   /\ cur' = [line |-> line, timestamp |-> sent + 1,
                              parsed |-> parse_data_line(line), i |-> 0]
  /\ UNCHANGED <<running, result, handles, script, signals, logging, analytics,
                 point_count, data_points, stats_file, checkpoints>>
  /\ UNCHANGED archive

\* the next place of read_serial_data's loop over the fields of the line
NextField == IF cur.i < Len(cur.parsed) THEN "field" ELSE "accept"

\* a line with no field is given up before anything is written or counted
WriteRow_DropsEmptyMapping ==
  /\ pc = "row"
  /\ IF cur.parsed = <<>>
     THEN /\ pc' = "test"
          /\ cur' = NoLine
          /\ UNCHANGED <<logging, data_quality>>
     ELSE /\ LET columns == ObserveColumns(csv_columns, cur.parsed)
                 header  == IF csv_headers_written THEN <<>> ELSE <<Join(columns)>>
             IN  /\ csv_columns' = columns
                 /\ csv_headers_written' = TRUE
                 /\ log_file' = log_file \o header
                                   \o <<Join(RowFor(columns, cur.timestamp, cur.parsed))>>
                 /\ log_flushed' = Len(log_file')
          /\ data_quality' = [data_quality EXCEPT !.total_readings = @ + 1]
          /\ cur' = [cur EXCEPT !.i = 1]
          /\ pc' = "field"
  /\ UNCHANGED <<running, result, handles, source, signals, stats, trends, fed,
                 point_count, data_points, stats_file, checkpoints>>
  /\ UNCHANGED archive

\* a row left in the buffer: written, not flushed
WriteRow_NoFlush ==
  /\ pc = "row"
  /\ LET columns == ObserveColumns(csv_columns, cur.parsed)
         header  == IF csv_headers_written THEN <<>> ELSE <<Join(columns)>>
     IN  /\ csv_columns' = columns
         /\ csv_headers_written' = TRUE
         /\ log_file' = log_file \o header
                           \o <<Join(RowFor(columns, cur.timestamp, cur.parsed))>>
         /\ log_flushed' = log_flushed
  /\ data_quality' = [data_quality EXCEPT !.total_readings = @ + 1]
  /\ cur' = [cur EXCEPT !.i = 1]
  /\ pc' = IF cur.parsed = <<>> THEN "accept" ELSE "field"
  /\ UNCHANGED <<running, result, handles, source, signals, stats, trends, fed,
                 point_count, data_points, stats_file, checkpoints>>
  /\ UNCHANGED archive

\* a header written again whenever the line brought a new column
WriteRow_HeaderOnNewColumns ==
  /\ pc = "row"
  /\ LET columns == ObserveColumns(csv_columns, cur.parsed)
         header  == IF csv_headers_written /\ columns = csv_columns
                    THEN <<>> ELSE <<Join(columns)>>
     IN  /\ csv_columns' = columns
         /\ csv_headers_written' = TRUE
         /\ log_file' = log_file \o header
                           \o <<Join(RowFor(columns, cur.timestamp, cur.parsed))>>
         /\ log_flushed' = Len(log_file')
  /\ data_quality' = [data_quality EXCEPT !.total_readings = @ + 1]
  /\ cur' = [cur EXCEPT !.i = 1]
  /\ pc' = IF cur.parsed = <<>> THEN "accept" ELSE "field"
  /\ UNCHANGED <<running, result, handles, source, signals, stats, trends, fed,
                 point_count, data_points, stats_file, checkpoints>>
  /\ UNCHANGED archive

\* read_serial_data: update_csv_columns (the header goes out once),
\* write_csv_row with its flush, and total_readings += 1
WriteRow ==
  /\ pc = "row"
  /\ LET columns == ObserveColumns(csv_columns, cur.parsed)
         header  == IF csv_headers_written THEN <<>> ELSE <<Join(columns)>>
     IN  /\ csv_columns' = columns
         /\ csv_headers_written' = TRUE
         /\ log_file' = log_file \o header
                           \o <<Join(RowFor(columns, cur.timestamp, cur.parsed))>>
         /\ log_flushed' = Len(log_file')
  /\ data_quality' = [data_quality EXCEPT !.total_readings = @ + 1]
  /\ cur' = [cur EXCEPT !.i = 1]
  /\ pc' = IF cur.parsed = <<>> THEN "accept" ELSE "field"
  /\ UNCHANGED <<running, result, handles, source, signals, stats, trends, fed,
                 point_count, data_points, stats_file, checkpoints>>
  /\ UNCHANGED archive

\* the error test made against the pressure code -99.70
IsErrorValue_OfflineCode(value) == value = OfflineValue

\* is_error = value == -99.50
IsErrorValue(value) == value = ErrorValue

\* a float() whose ValueError leaves read_serial_data: the line is given up
Field_AbortsTheLine ==
  /\ pc = "field"
  /\ LET key == cur.parsed[cur.i][1]
         f   == ToFloat(cur.parsed[cur.i][2])
     IN  IF ~f.ok
         THEN /\ data_quality' = update_sensor_health(data_quality, key, 0, TRUE, cur.timestamp)
              /\ UNCHANGED <<stats, fed>>
              /\ pc' = "test"
              /\ cur' = NoLine
         ELSE /\ data_quality' = update_sensor_health(data_quality, key, f.val,
                                                      IsErrorValue(f.val), cur.timestamp)
              /\ IF IsErrorValue(f.val)
                 THEN /\ UNCHANGED <<stats, fed>>
                      /\ pc' = NextField
                      /\ cur' = [cur EXCEPT !.i = @ + 1]
                 ELSE /\ stats' = StatBegin(stats, key, f.val)
                      /\ fed' = DictPut(fed, key,
                                  Append(IF DictHas(fed, key) THEN DictGet(fed, key) ELSE <<>>,
                                         f.val))
                      /\ pc' = "stat"
                      /\ cur' = cur
  /\ UNCHANGED <<running, result, handles, source, signals, logging, trends,
                 point_count, data_points, stats_file, checkpoints>>
  /\ UNCHANGED archive

\* read_serial_data, one field: float(), update_sensor_health, and for a
\* value that is not the error value calculate_statistics up to values.append
Field ==
  /\ pc = "field"
  /\ LET key == cur.parsed[cur.i][1]
         f   == ToFloat(cur.parsed[cur.i][2])
     IN  IF ~f.ok
         THEN /\ data_quality' = update_sensor_health(data_quality, key, 0, TRUE, cur.timestamp)
              /\ UNCHANGED <<stats, fed>>
              /\ pc' = NextField
              /\ cur' = [cur EXCEPT !.i = @ + 1]
         ELSE /\ data_quality' = update_sensor_health(data_quality, key, f.val,
                                                      IsErrorValue(f.val), cur.timestamp)
              /\ IF IsErrorValue(f.val)
                 THEN /\ UNCHANGED <<stats, fed>>
                      /\ pc' = NextField
                      /\ cur' = [cur EXCEPT !.i = @ + 1]
                 ELSE /\ stats' = StatBegin(stats, key, f.val)
                      /\ fed' = DictPut(fed, key,
                                  Append(IF DictHas(fed, key) THEN DictGet(fed, key) ELSE <<>>,
                                         f.val))
                      /\ pc' = "stat"
                      /\ cur' = cur
  /\ UNCHANGED <<running, result, handles, source, signals, logging, trends,
                 point_count, data_points, stats_file, checkpoints>>
  /\ UNCHANGED archive

\* read_serial_data, the same field: the rest of calculate_statistics and
\* the trend buffers
StatStep ==
  /\ pc = "stat"
  /\ LET key   == cur.parsed[cur.i][1]
         value == ToFloat(cur.parsed[cur.i][2]).val
     IN  /\ stats' = StatFinish(stats, key, value)
         /\ trends' = update_trends(trends, key, value)
  /\ pc' = NextField
  /\ cur' = [cur EXCEPT !.i = @ + 1]
  /\ UNCHANGED <<running, result, handles, source, signals, logging, data_quality, fed,
                 point_count, data_points, stats_file, checkpoints>>
  /\ UNCHANGED archive

\* a tick whose frame is dropped once the recent history is full
Accept_KeepsTheFirstFrames ==
  /\ pc = "accept"
  /\ trends' = [trends EXCEPT !.viz_data.timestamps = DequeAppend(@, cur.timestamp, VizLen)]
  /\ point_count' = point_count + 1
  /\ data_points' = IF Len(data_points) >= MAX_DATAPOINTS THEN data_points
                    ELSE Append(data_points,
                                [timestamp |-> cur.timestamp, raw_data |-> cur.line,
                                 parsed_data |-> cur.parsed])
  /\ IF point_count' % CheckpointEvery = 0
     THEN SaveFinalStatistics("periodic", point_count')
     ELSE UNCHANGED <<stats_file, checkpoints>>
  /\ cur' = NoLine
  /\ pc' = "test"
  /\ UNCHANGED <<running, result, handles, source, signals, logging, data_quality, stats, fed>>
  /\ UNCHANGED archive

\* the end of read_serial_data and the rest of the tick in run(): the frame
\* is counted and kept, every CheckpointEvery points a checkpoint is
\* written, then update_display and the sleep
Accept ==
  /\ pc = "accept"
  /\ trends' = [trends EXCEPT !.viz_data.timestamps = DequeAppend(@, cur.timestamp, VizLen)]
  /\ point_count' = point_count + 1
  /\ data_points' = DequeAppend(data_points,
                      [timestamp |-> cur.timestamp, raw_data |-> cur.line,
                       parsed_data |-> cur.parsed], MAX_DATAPOINTS)
  /\ IF point_count' % CheckpointEvery = 0
     THEN SaveFinalStatistics("periodic", point_count')
     ELSE UNCHANGED <<stats_file, checkpoints>>
  /\ cur' = NoLine
  /\ pc' = "test"
  /\ UNCHANGED <<running, result, handles, source, signals, logging, data_quality, stats, fed>>
  /\ UNCHANGED archive

\* cleanup(): the serial port
CloseSerial ==
  /\ pc = "close_serial"
  /\ serial_open' = FALSE
  /\ pc' = "close_log"
  /\ UNCHANGED <<running, result, log_open, stats_open, source, signals, cur, logging,
                 analytics, point_count, data_points, stats_file, checkpoints>>
  /\ UNCHANGED archive

\* cleanup(): the data log; close() flushes what is buffered
CloseLog ==
  /\ pc = "close_log"
  /\ log_open' = FALSE
  /\ log_flushed' = Len(log_file)
  /\ pc' = "close_stats"
  /\ UNCHANGED <<running, result, serial_open, stats_open, source, signals, cur,
                 csv_columns, csv_headers_written, log_file,
                 analytics, point_count, data_points, stats_file, checkpoints>>
  /\ UNCHANGED archive

\* cleanup(): the statistics log
CloseStats ==
  /\ pc = "close_stats"
  /\ stats_open' = FALSE
  /\ pc' = "summary"
  /\ UNCHANGED <<running, result, serial_open, log_open, source, signals, cur, logging,
                 analytics, point_count, data_points, stats_file, checkpoints>>
  /\ UNCHANGED archive

\* cleanup(): the session summary; run() returns True
Summary ==
  /\ pc = "summary"
  /\ pc' = "stopped"
  /\ result' = "true"
  /\ UNCHANGED <<running, handles, source, signals, cur, logging, analytics,
                 point_count, data_points, stats_file, checkpoints>>
  /\ UNCHANGED archive

\* signal_handler, run between two steps of run(): save_final_statistics,
\* then self.running = False.  A write to the closed statistics log raises
\* ValueError, which ends run().  At most n signals are delivered.
SignalAtMost(n) ==
  /\ pc # "stopped"
  /\ signals < n
  /\ signals' = signals + 1
  /\ IF ~save_statistics
     THEN /\ running' = FALSE
          /\ UNCHANGED <<pc, result, stats_file, checkpoints>>
     ELSE IF stats_open
     THEN /\ SaveFinalStatistics("signal", point_count)
          /\ running' = FALSE
          /\ UNCHANGED <<pc, result>>
     ELSE /\ pc' = "stopped"
          /\ result' = "raised"
          /\ UNCHANGED <<running, stats_file, checkpoints>>
  /\ UNCHANGED <<handles, source, cur, logging, analytics, point_count, data_points>>
  /\ UNCHANGED archive

Signal == SignalAtMost(MaxSignals)

\* the steps of run() itself
Main ==
  \/ Connect \/ EnterLoop \/ LoopTest \/ ReadNothing \/ ReadLine \/ WriteRow
  \/ Field \/ StatStep \/ Accept \/ CloseSerial \/ CloseLog \/ CloseStats \/ Summary

Next ==
  \/ Connect \/ EnterLoop \/ LoopTest \/ ReadNothing \/ ReadLine \/ WriteRow
  \/ Field \/ StatStep \/ Accept \/ CloseSerial \/ CloseLog \/ CloseStats \/ Summary
  \/ Signal

Spec == Init /\ [][Next]_vars

\* the runs of the free source
FairInit == InitWith(FairScript)

\* run() never stalls: every statement returns, readline() within its timeout
FairSpec == FairInit /\ [][Next]_vars /\ WF_vars(Main)

\* the short runs: any lines, chosen freely
ShortInit == InitWith(FreeScript)

ShortSpec == ShortInit /\ [][Next]_vars

\* the runs over the lines for the health classifier
HealthInit == InitWith(HealthScript)

HealthSpec == HealthInit /\ [][Next]_vars

\* the runs over the lines for the decoder
DecodeInit == InitWith(DecodeScript)

DecodeSpec == DecodeInit /\ [][Next]_vars

\* the steps of run() up to and in its loop
Ticks ==
  \/ Connect \/ EnterLoop \/ LoopTest \/ ReadNothing \/ ReadLine \/ WriteRow
  \/ Field \/ StatStep \/ Accept

\* the long runs of a session that gets no termination signal
TrendInit == InitWith(TrendScript)

TrendSpec == TrendInit /\ [][Ticks]_vars

\* the long runs, of short lines, of a session that gets no termination signal
HistoryInit == InitWith(HistoryScript)

HistorySpec == HistoryInit /\ [][Ticks]_vars

\* the short runs that get up to RepeatSignals termination signals
RepeatNext == Main \/ SignalAtMost(RepeatSignals)

RepeatSpec == ShortInit /\ [][RepeatNext]_vars

\* the sessions that read one or two directions
DirInit == \E sc \in DirScripts : InitWith(sc)

DirSpec == DirInit /\ [][Next]_vars

\* parse_trisonica_log has returned r: the format it detected, the parser
\* it chose, the record set and what was printed
Returns(r) ==
  /\ log_format' = r.log_format
  /\ parser' = r.parser
  /\ df' = r.df
  /\ reported' = r.reported

\* process_single_file: the file is given to parse_trisonica_log
ParseTrisonicaLog ==
  /\ vis_pc = "call"
  /\ Returns(parse_trisonica_log(file))
  /\ vis_pc' = "done"
  /\ UNCHANGED <<file, batching, session>>

\* a file is read back, whatever it holds
VisInit ==
  /\ Constructed(FreeScript)
  /\ file \in Files
  /\ vis_pc = "call"
  /\ log_format = "none"
  /\ parser = "none"
  /\ df = NoData
  /\ reported = <<>>
  /\ batch = <<>>
  /\ processed = 0
  /\ success_count = 0
  /\ yielded = 0

VisSpec == VisInit /\ [][ParseTrisonicaLog]_vars

\* parse_json_log called on the file itself
ParseJsonLog ==
  /\ vis_pc = "call"
  /\ log_format' = log_format
  /\ parser' = "json"
  /\ df' = parse_json_log(file)
  /\ reported' = reported
  /\ vis_pc' = "done"
  /\ UNCHANGED <<file, batching, session>>

\* a file is given to the json parser, whatever it holds
JsonSpec == VisInit /\ [][ParseJsonLog]_vars

\* main(): no file to process, it returns at once
NoFiles ==
  /\ vis_pc = "batch"
  /\ batch = <<>>
  /\ vis_pc' = "returned"
  /\ UNCHANGED <<file, log_format, parser, df, reported, batching, session>>

\* a loop that ends at the first file that is not processed with success
ProcessFile_StopsAtAFailure ==
  /\ vis_pc = "batch"
  /\ processed < Len(batch)
  /\ file' = batch[processed + 1]
  /\ Returns(parse_trisonica_log(batch[processed + 1]))
  /\ yielded' = IF df'.ok THEN yielded + 1 ELSE yielded
  /\ success_count' = IF process_single_file(df') = "true" THEN success_count + 1 ELSE success_count
  /\ processed' = IF process_single_file(df') = "true" THEN processed + 1 ELSE Len(batch)
  /\ UNCHANGED <<vis_pc, batch, session>>

\* main(), one turn of its loop: process_single_file on the next file; True
\* counts as a success, False and an exception (caught and printed) do not
ProcessFile ==
  /\ vis_pc = "batch"
  /\ processed < Len(batch)
  /\ file' = batch[processed + 1]
  /\ Returns(parse_trisonica_log(batch[processed + 1]))
  /\ yielded' = IF df'.ok THEN yielded + 1 ELSE yielded
  /\ success_count' = IF process_single_file(df') = "true" THEN success_count + 1 ELSE success_count
  /\ processed' = processed + 1
  /\ UNCHANGED <<vis_pc, batch, session>>

\* main(): the loop is over, the summary is printed
BatchSummary ==
  /\ vis_pc = "batch"
  /\ batch # <<>>
  /\ processed = Len(batch)
  /\ vis_pc' = "summary"
  /\ UNCHANGED <<file, log_format, parser, df, reported, batching, session>>

\* main() with its files to process
BatchInit ==
  /\ Constructed(FreeScript)
  /\ file = [readable |-> FALSE, lines |-> <<>>]
  /\ vis_pc = "batch"
  /\ log_format = "none"
  /\ parser = "none"
  /\ df = NoData
  /\ reported = <<>>
  /\ batch \in Batches
  /\ processed = 0
  /\ success_count = 0
  /\ yielded = 0

BatchNext == NoFiles \/ ProcessFile \/ BatchSummary

BatchSpec == BatchInit /\ [][BatchNext]_vars

\* sys.exit(0 if logger.run() else 1)
ExitStatus == IF result = "true" THEN 0 ELSE 1

\* ---------------------------------------------------------------- lifecycle

LoopPlaces == {"test", "read", "row", "field", "stat", "accept"}

CleanupPlaces == {"close_serial", "close_log", "close_stats", "summary"}

Lifecycle ==
  CASE pc = "start" -> "Idle"
    [] pc = "connected" -> "Connected"
    [] pc \in LoopPlaces -> "Running"
    [] pc \in CleanupPlaces -> "ShuttingDown"
    [] pc = "stopped" -> "Stopped"

Rank(l) ==
  CASE l = "Idle" -> 0 [] l = "Connected" -> 1 [] l = "Running" -> 2
    [] l = "ShuttingDown" -> 3 [] l = "Stopped" -> 4

AllClosed == ~serial_open /\ ~log_open /\ ~stats_open

\* the source will deliver no further line
Exhausted == NextLines(script, sent) = {}

\* the field read_serial_data is at, and its value
CurKey == cur.parsed[cur.i][1]

CurFloat == ToFloat(cur.parsed[cur.i][2])

\* a step of read_serial_data over the field it is at
FieldStep == pc = "field" /\ (pc' # pc \/ cur' # cur)

\* the least and the greatest member of a non-empty sequence
SeqMin(q) == CHOOSE m \in {q[i] : i \in 1..Len(q)} : \A i \in 1..Len(q) : m <= q[i]

SeqMax(q) == CHOOSE m \in {q[i] : i \in 1..Len(q)} : \A i \in 1..Len(q) : m >= q[i]

\* the last n members of q, all of q when it is shorter
LastN(q, n) == IF Len(q) <= n THEN q ELSE SubSeq(q, Len(q) - n + 1, Len(q))

\* the parameter whose calculate_statistics call is under way
MidUpdate(key) == pc = "stat" /\ CurKey = key

\* =================================================================== claims

SignalCheckpoints == {i \in 1..Len(checkpoints) : checkpoints[i].by = "signal"}

PeriodicCheckpoints == {i \in 1..Len(checkpoints) : checkpoints[i].by = "periodic"}

\* C1: a checkpoint is written exactly when the accepted-point counter
\* reaches a positive multiple of 100 and exactly once more at shutdown: the
\* periodic checkpoints are one per multiple of 100 reached, a shutdown has
\* at most one checkpoint, no checkpoint follows the shutdown checkpoint, and
\* a run that has shut down has written its shutdown checkpoint.
C1_CheckpointsOnlyPeriodicAndOnceAtShutdown ==
  /\ \A i \in PeriodicCheckpoints :
       checkpoints[i].at > 0 /\ checkpoints[i].at % CheckpointEvery = 0
  /\ Cardinality(PeriodicCheckpoints) = point_count \div CheckpointEvery
  /\ Cardinality(SignalCheckpoints) <= 1
  /\ \A i \in SignalCheckpoints : i = Len(checkpoints)
  /\ (pc = "stopped" /\ result = "true") => Cardinality(SignalCheckpoints) = 1

\* the count the last checkpoint gives for a parameter, -1 when it has no row for it
LastCheckpointCount(key) ==
  LET c    == checkpoints[Len(checkpoints)]
      rows == SubSeq(stats_file, c.first, c.last)
  IN  IF \E j \in 1..Len(rows) : rows[j].parameter = key
      THEN rows[CHOOSE j \in 1..Len(rows) : rows[j].parameter = key].count
      ELSE -1

\* C2: the final checkpoint is written after the tick in progress is
\* finished: when the run has ended, the last checkpoint gives every
\* parameter the number of values accepted for it over the whole session.
C2_FinalCheckpointCountsEverything ==
  (pc = "stopped" /\ result = "true") =>
    /\ checkpoints # <<>>
    /\ \A i \in 1..Len(fed) : LastCheckpointCount(fed[i][1]) = Len(fed[i][2])

\* C3: once a termination signal has been received while Running, no
\* further tick is started and the session reaches Stopped with the line
\* source and both logs closed; the lifecycle only moves forward.
C3_SignalStopsTheSession ==
  /\ [][Rank(Lifecycle') >= Rank(Lifecycle)]_vars
  /\ [][(Lifecycle = "Running" /\ ~running) =>
          (~running' /\ (pc = "test" => pc' \in {"test", "close_serial"}))]_vars
  /\ (Lifecycle = "Running" /\ ~running) ~> (pc = "stopped" /\ AllClosed)

C3_StoppedAfterSignal ==
  pc = "stopped" /\ result = "true" /\ signals > 0 /\ point_count > 0 /\ AllClosed

\* C4: once the line source delivers no further line, the session leaves
\* Running, writes a final checkpoint and reaches Stopped, without any
\* termination signal.
C4_ExhaustionEndsTheSession ==
  (Lifecycle = "Running" /\ Exhausted /\ signals = 0) ~>
    (pc = "stopped" /\ checkpoints # <<>>)

\* C5: a failed acquisition of the line source ends the run at once with a
\* failure result and a non-zero exit status: no line is read, no data-log
\* row and no checkpoint row is written, and nothing is tried again.
C5_FailedAcquisitionEndsTheRun ==
  /\ [][(pc = "start" /\ pc' # "start" /\ ~serial_open') =>
          (pc' = "stopped" /\ result' = "false")]_vars
  /\ [](result = "false" =>
          /\ pc = "stopped" /\ ExitStatus # 0
          /\ sent = 0 /\ point_count = 0 /\ data_quality.total_readings = 0
          /\ log_file = <<>> /\ stats_file = <<>>)
  /\ [][result = "false" => UNCHANGED vars]_vars

C5_AcquisitionFailed == pc = "stopped" /\ result = "false" /\ ~serial_open

\* the health entry and the statistics entry of a parameter
Health(key) == DictGet(data_quality.sensor_health, key)

Stat(key) == DictGet(stats, key)

TrendBuffers ==
  {trends.viz_data.wind_speed, trends.viz_data.temperature, trends.viz_data.wind_direction,
   trends.recent_wind_speeds, trends.recent_wind_directions}

\* C6: a field whose value is -99.50 is kept out of the statistics and of
\* the trend buffers: -99.50 is in no windowed FIFO, is no parameter's min,
\* max or current value and is in no trend buffer; the step that processes
\* such a field changes no statistic and no trend buffer, adds exactly one
\* to the session error counter and sets the parameter's status to Error.
C6_ErrorValueOnlyCountsAsError ==
  /\ [](/\ \A i \in 1..Len(stats) :
             /\ ~Contains(stats[i][2].values, ErrorValue)
             /\ stats[i][2].min_val # ErrorValue /\ stats[i][2].max_val # ErrorValue
        /\ \A b \in TrendBuffers : ~Contains(b, ErrorValue))
  /\ [][(FieldStep /\ CurFloat.ok /\ CurFloat.val = ErrorValue) =>
          /\ stats' = stats /\ trends' = trends /\ pc' # "stat"
          /\ data_quality'.error_count = data_quality.error_count + 1
          /\ DictGet(data_quality'.sensor_health, CurKey).status = "Error"]_vars

\* an error value has been read for a parameter that has statistics
C6_ErrorValueAfterGoodValues ==
  /\ DictHas(stats, <<"S">>) /\ Stat(<<"S">>).count > 0
  /\ Health(<<"S">>).status = "Error"
  /\ data_quality.error_count > 0
  /\ pc = "test"

\* C7: neither -99.50 (any parameter) nor -99.70 on the pressure key is
\* ever passed to the statistics update: neither is a value passed to it,
\* is in the windowed FIFO or is the cumulative min, and the pressure
\* key gets no count from a -99.70.
C7_SentinelsNeverReachStatistics ==
  /\ \A i \in 1..Len(fed) :
       /\ ~Contains(fed[i][2], ErrorValue)
       /\ fed[i][1] = <<"P">> => ~Contains(fed[i][2], OfflineValue)
  /\ \A i \in 1..Len(stats) :
       /\ ~Contains(stats[i][2].values, ErrorValue)
       /\ stats[i][1] = <<"P">> =>
            /\ ~Contains(stats[i][2].values, OfflineValue)
            /\ stats[i][2].count > 0 => stats[i][2].min_val # OfflineValue

\* C8: after any sequence of statistics updates for a parameter, every
\* value in its windowed FIFO lies between cumulative min and max, and these
\* are the least and the greatest of all values ever passed to the update.
C8_MinMaxCoverEveryValue ==
  \A i \in 1..Len(stats) :
    LET key  == stats[i][1]
        stat == stats[i][2]
        all  == DictGet(fed, key)
    IN  ~MidUpdate(key) =>
          /\ \A j \in 1..Len(stat.values) :
               stat.min_val <= stat.values[j] /\ stat.values[j] <= stat.max_val
          /\ stat.min_val = SeqMin(all)
          /\ stat.max_val = SeqMax(all)

\* the cumulative min of a parameter has left its full window
C8_MinEvictedFromWindow ==
  \E i \in 1..Len(stats) :
    /\ ~MidUpdate(stats[i][1])
    /\ stats[i][2].count > StatWindow
    /\ ~Contains(stats[i][2].values, stats[i][2].min_val)
    /\ stats[i][2].min_val < stats[i][2].max_val

\* C9: the windowed FIFO never holds more than 100 values; after n updates
\* it holds the last min(n, 100) values passed to the update, in order.
C9_WindowIsTheLastHundred ==
  \A i \in 1..Len(stats) :
    /\ Len(stats[i][2].values) <= StatWindow
    /\ stats[i][2].values = LastN(DictGet(fed, stats[i][1]), StatWindow)

\* after 150 updates the window holds updates 51..150
C9_After150Updates ==
  \E i \in 1..Len(stats) :
    LET all == DictGet(fed, stats[i][1])
    IN  /\ Len(all) = 150
        /\ stats[i][2].values = SubSeq(all, 51, 150)
        /\ \E j \in 51..150 : all[j] # all[1]

\* the count of a parameter, 0 before its first update
CountOf(st, key) == IF DictHas(st, key) THEN DictGet(st, key).count ELSE 0

\* C10: count is the number of numeric values other than -99.50 accepted
\* for the parameter: it grows by exactly one with every such value, also
\* when the full FIFO evicts a value, changes in no other step, and is never
\* less than the length of the FIFO.
C10_CountGrowsByOnePerUpdate ==
  /\ [](\A i \in 1..Len(stats) :
          /\ stats[i][2].count = Len(DictGet(fed, stats[i][1]))
          /\ stats[i][2].count >= Len(stats[i][2].values))
  /\ [][IF FieldStep /\ CurFloat.ok /\ CurFloat.val # ErrorValue
        THEN /\ CountOf(stats', CurKey) = CountOf(stats, CurKey) + 1
             /\ \A k \in (DictKeys(stats) \cup DictKeys(stats')) \ {CurKey} :
                  CountOf(stats', k) = CountOf(stats, k)
        ELSE \A k \in DictKeys(stats) \cup DictKeys(stats') :
                  CountOf(stats', k) = CountOf(stats, k)]_vars

\* an update has evicted a value: the count exceeds the length of the FIFO
C10_CountBeyondWindow ==
  \E i \in 1..Len(stats) :
    /\ stats[i][2].count > StatWindow
    /\ Len(stats[i][2].values) = StatWindow

NoDuplicates(q) == \A i, j \in 1..Len(q) : q[i] = q[j] => i = j

\* p is a prefix of q
IsPrefix(p, q) == Len(p) <= Len(q) /\ SubSeq(q, 1, Len(p)) = p

\* the fields {S, D, T} and {S, D, T, H, P} of two lines
FieldsSDT == << <<<<"S">>, <<"1">>>>, <<<<"D">>, <<"2">>>>, <<<<"T">>, <<"3">>>> >>

FieldsSDTHP == FieldsSDT \o << <<<<"H">>, <<"4">>>>, <<<<"P">>, <<"5">>>> >>

\* C12: the schema begins with the timestamp column and has no name twice;
\* every step leaves the earlier schema a prefix of the later one, so names
\* are appended in discovery order and no column index changes; observing
\* {S,D,T} then {S,D,T,H,P} yields [timestamp,S,D,T,H,P].
C12_SchemaIsAppendOnly ==
  /\ [](csv_columns # <<>> /\ csv_columns[1] = Timestamp /\ NoDuplicates(csv_columns))
  /\ [][IsPrefix(csv_columns, csv_columns')]_vars
  /\ [](pc = "row" =>
          ObserveColumns(ObserveColumns(ObserveColumns(csv_columns, cur.parsed), FieldsSDT),
                         FieldsSDTHP)
            = LET seen == ObserveColumns(csv_columns, cur.parsed)
                  new  == SelectSeq(<<<<"S">>, <<"D">>, <<"T">>, <<"H">>, <<"P">>>>,
                                    LAMBDA k : ~Contains(seen, k))
              IN  seen \o new)

\* two lines have been observed: the second brought one known and one new name
C12_SecondLineAddedAColumn ==
  /\ csv_columns = <<Timestamp, <<"S">>, <<"D">>, <<"P">>>>
  /\ Len(log_file) = 3
  /\ pc = "field"

\* the fields of a line of the data log
FieldsOf(l) == SplitOn(SubSeq(l, 1, Len(l) - 1), ",")

\* a line of the data log is the header: it begins with the column name
\* "timestamp" (a row begins with an instant)
IsHeader(l) == Len(l) >= Len(Timestamp) /\ SubSeq(l, 1, Len(Timestamp)) = Timestamp

\* the fields of the first frame of the session (the frame being processed
\* when none is kept yet)
FirstFrameFields ==
  IF data_points # <<>> THEN data_points[1].parsed_data ELSE cur.parsed

AfterRow == {"field", "stat", "accept"}

\* C14: the row written for a frame is one line with exactly one value per
\* column of the schema at the time of writing, in schema order: the instant
\* of the frame for the timestamp column, the frame's raw string for a column
\* among its fields, the empty string for a column absent from them.
C14_RowHasOneValuePerColumn ==
  pc \in AfterRow =>
    LET line   == log_file[Len(log_file)]
        values == FieldsOf(line)
    IN  /\ line[Len(line)] = "\n"
        /\ ~Contains(SubSeq(line, 1, Len(line) - 1), "\n")
        /\ Len(values) = Len(csv_columns)
        /\ \A i \in 1..Len(csv_columns) :
             values[i] =
               IF csv_columns[i] = Timestamp THEN IsoFormat(cur.timestamp)
               ELSE IF \E j \in 1..Len(cur.parsed) : cur.parsed[j][1] = csv_columns[i]
               THEN cur.parsed[CHOOSE j \in 1..Len(cur.parsed) :
                                 cur.parsed[j][1] = csv_columns[i]][2]
               ELSE <<>>

\* a row with a value for one column and none for an earlier one
C14_RowWithAnAbsentColumn ==
  /\ pc = "accept"
  /\ \E i, j \in 2..Len(csv_columns) :
       /\ i < j
       /\ FieldsOf(log_file[Len(log_file)])[i] = <<>>
       /\ FieldsOf(log_file[Len(log_file)])[j] # <<>>

\* the data rows that are flushed: the flushed lines but the header
FlushedRows == IF log_flushed = 0 THEN 0 ELSE log_flushed - 1

\* line l of the data log is the row of the frame of instant t
IsRowOf(l, t) ==
  LET iso == IsoFormat(t)
  IN  /\ Len(l) > Len(iso)
      /\ SubSeq(l, 1, Len(iso)) = iso
      /\ l[Len(iso) + 1] \in {",", "\n"}

\* C15: the row of a line is written and flushed before the statistics of
\* the line are updated and before the next line is read: the flushed data
\* rows are at least the accepted points and at most one more, and the row of
\* every counted point is among the flushed lines.
C15_RowFlushedBeforeThePointCounts ==
  /\ point_count <= FlushedRows /\ FlushedRows <= point_count + 1
  /\ log_flushed <= Len(log_file)
  /\ pc \in AfterRow => (log_flushed = Len(log_file) /\ FlushedRows = point_count + 1)
  /\ pc \in {"test", "read"} => (log_flushed = Len(log_file) /\ FlushedRows = point_count)
  /\ Len(data_points) = point_count
  /\ \A i \in 1..Len(data_points) : IsRowOf(log_file[i + 1], data_points[i].timestamp)

\* the statistics of a line are being updated, its row is flushed and its
\* point not yet counted
C15_FlushedRowOfAnUncountedPoint ==
  /\ pc = "stat"
  /\ point_count >= 1
  /\ FlushedRows = point_count + 1
  /\ IsRowOf(log_file[log_flushed], cur.timestamp)

\* the raw string of the field read_serial_data is at
CurText == cur.parsed[cur.i][2]

\* the status of a parameter after the step
StatusAfter(key) == DictGet(data_quality'.sensor_health, key).status

\* the status the rule gives one reading: f is float() of its raw string
RuleStatus(key, f) ==
  IF ~f.ok \/ f.val = ErrorValue THEN "Error"
  ELSE IF key[1] = "T" /\ f.val > MalfunctionAbove THEN "Malfunction"
  ELSE IF key = <<"P">> /\ f.val = OfflineValue THEN "Offline"
  ELSE "Good"

\* C16: the status one reading sets follows the rule, in this precedence:
\* non-numeric or -99.50 gives Error; else a temperature-prefixed key above
\* 100000 gives Malfunction; else the pressure key at -99.70 gives Offline;
\* else Good.  Pressure -99.70 is Offline, temperature 150000 Malfunction,
\* temperature -99.50 Error, humidity 45.2 Good.
C16_StatusFollowsTheRule ==
  /\ [][FieldStep => StatusAfter(CurKey) = RuleStatus(CurKey, CurFloat)]_vars
  /\ [][(FieldStep /\ CurKey = <<"P">> /\ CurText = <<"-", "9", "9", ".", "7", "0">>)
          => StatusAfter(<<"P">>) = "Offline"]_vars
  /\ [][(FieldStep /\ CurKey = <<"T">> /\ CurText = <<"1", "5", "0", "0", "0", "0">>)
          => StatusAfter(<<"T">>) = "Malfunction"]_vars
  /\ [][(FieldStep /\ CurText = <<"-", "9", "9", ".", "5", "0">>)
          => StatusAfter(CurKey) = "Error"]_vars
  /\ [][(FieldStep /\ CurKey = <<"H">> /\ CurText = <<"4", "5", ".", "2">>)
          => StatusAfter(<<"H">>) = "Good"]_vars

\* a temperature at the threshold is Good while the pressure is Offline
C16_ThresholdIsGood ==
  /\ pc = "test"
  /\ DictGet(data_quality.sensor_health, <<"T">>).status = "Good"
  /\ DictGet(data_quality.sensor_health, <<"P">>).status = "Offline"

\* C17: every parameter's error_rate lies in [0, 100], whatever the lines,
\* also lines with several sentinel or non-numeric fields.
C17_ErrorRateIsAPercentage ==
  \A i \in 1..Len(data_quality.sensor_health) :
    LET rate == data_quality.sensor_health[i][2].error_rate
    IN  /\ rate.den > 0
        /\ 0 <= rate.num
        /\ rate.num <= 100 * rate.den

\* no line is being processed
BetweenLines == pc \notin ({"row"} \cup AfterRow)

\* C18: error_rate is one session-wide ratio: once a line is processed,
\* every parameter that has had a reading stores the same rate,
\* 100 x error_count / total_readings as they stand.
C18_OneSessionWideErrorRate ==
  BetweenLines =>
    \A i \in 1..Len(data_quality.sensor_health) :
      LET sensor == data_quality.sensor_health[i][2]
      IN  sensor.status # "Unknown" =>
            sensor.error_rate.num * data_quality.total_readings
              = 100 * data_quality.error_count * sensor.error_rate.den

\* the last_good_reading of a parameter, 0 (None) while it has no entry
LastGood(dq, key) ==
  IF DictHas(dq.sensor_health, key)
  THEN DictGet(dq.sensor_health, key).last_good_reading ELSE 0

\* C19: last_good_reading is set only by a reading classified Good: a
\* reading classified Error, Malfunction or Offline leaves it unchanged, and
\* no other step touches it.
C19_LastGoodOnlyFromGoodReadings ==
  /\ [][(FieldStep /\ StatusAfter(CurKey) \in {"Error", "Malfunction", "Offline"}) =>
          LastGood(data_quality', CurKey) = LastGood(data_quality, CurKey)]_vars
  /\ [][\A k \in DictKeys(data_quality'.sensor_health) :
          LastGood(data_quality', k) # LastGood(data_quality, k) =>
            (FieldStep /\ k = CurKey)]_vars

\* raw strings a reading may carry
ReadingTexts ==
  { <<"1", "5", "0", "0", "0", "0">>, <<"1", "0", "0", "0", "0", "0">>,
    <<"-", "9", "9", ".", "5", "0">>, <<"-", "9", "9", ".", "7", "0">>,
    <<"4", "5", ".", "2">>, <<"x">> }

\* the status of a parameter after read_serial_data has processed one
\* reading of it with raw string text, from the data_quality record dq
StatusFrom(dq, key, text) ==
  LET f  == ToFloat(text)
      dq2 == IF f.ok
             THEN update_sensor_health(dq, key, f.val, IsErrorValue(f.val), 0)
             ELSE update_sensor_health(dq, key, 0, TRUE, 0)
  IN  DictGet(dq2.sensor_health, key).status

\* data_quality in a session whose first line is being processed
FreshQuality ==
  [total_readings |-> 1, error_count |-> 0, last_error_time |-> 0,
   sensor_health |-> InitialHealth]

FourStatuses == {"Good", "Error", "Malfunction", "Offline"}

\* the statuses the rule can give a parameter
StatusesOf(key) ==
  {"Good", "Error"}
    \cup (IF key # <<>> /\ key[1] = "T" THEN {"Malfunction"} ELSE {})
    \cup (IF key = <<"P">> THEN {"Offline"} ELSE {})

\* the parameters that have had a reading
ReadParameters ==
  {data_quality.sensor_health[i][1] : i \in
     {j \in 1..Len(data_quality.sensor_health) :
        data_quality.sensor_health[j][2].status # "Unknown"}}

\* the statuses one more reading can give a parameter
StatusesInOneReading(key) == {StatusFrom(data_quality, key, text) : text \in ReadingTexts}

\* the step that processes a reading leaves the status a session without
\* history gives the same reading
SameAsWithoutHistory ==
  FieldStep => StatusAfter(CurKey) = StatusFrom(FreshQuality, CurKey, CurText)

\* C20 as claimed: the status after a reading depends only on the reading,
\* never on the previous status or the history, so that each of Good,
\* Error, Malfunction and Offline is reachable from every other in one
\* reading of the parameter.
C20_EveryStatusFromEveryOther ==
  /\ [][SameAsWithoutHistory]_vars
  /\ [](\A k \in ReadParameters : FourStatuses \subseteq StatusesInOneReading(k))

\* C20 amended: the status after a reading depends only on the reading;
\* each status the rule can give the parameter (Good and Error for any
\* parameter, Malfunction only for a temperature-prefixed key, Offline only
\* for the pressure key) is reachable from every other in one reading, no
\* other status is, and none is absorbing.
C20_StatusDependsOnlyOnTheReading ==
  /\ [][SameAsWithoutHistory]_vars
  /\ [](\A k \in ReadParameters : StatusesInOneReading(k) = StatusesOf(k))

\* the temperature was read as 150000 by the first line and as an error
\* by the second: its status went from Malfunction to Error
C20_FromMalfunctionToError ==
  /\ pc = "test"
  /\ sent = 2
  /\ Len(log_file) = 3
  /\ log_file[2] = Join(<<IsoFormat(1), <<"1", "5", "0", "0", "0", "0">>>>)
  /\ DictGet(data_quality.sensor_health, <<"T">>).status = "Error"

\* C21: a field whose value fails numeric coercion sets its parameter's
\* status to Error and adds one to the session error counter, updates no
\* statistic and no trend buffer, and does not abort the line: the next
\* field of the line is processed next, every field has been processed
\* when the line is accepted, and the line is counted as a point.
C21_NonNumericFieldIsAnErrorOnly ==
  /\ [][(FieldStep /\ ~CurFloat.ok) =>
          /\ StatusAfter(CurKey) = "Error"
          /\ data_quality'.error_count = data_quality.error_count + 1
          /\ stats' = stats /\ fed' = fed /\ trends' = trends
          /\ cur'.line = cur.line /\ cur'.parsed = cur.parsed /\ cur'.i = cur.i + 1
          /\ pc' = IF cur.i < Len(cur.parsed) THEN "field" ELSE "accept"]_vars
  /\ [](pc = "accept" => cur.i = Len(cur.parsed) + 1)
  /\ [][(pc = "accept" /\ pc' # pc) =>
          /\ point_count' = point_count + 1
          /\ data_points'[Len(data_points')].raw_data = cur.line]_vars

\* a line whose first field was no number has had its later field counted
\* in the statistics and is accepted
C21_FieldAfterANonNumericOne ==
  /\ pc = "test"
  /\ point_count = 1
  /\ DictGet(data_quality.sensor_health, <<"H">>).status = "Error"
  /\ data_points[1].parsed_data[1] = <<<<"H">>, <<"x">>>>
  /\ DictHas(stats, <<"S">>)
  /\ data_quality.error_count = 1

\* the trend buffers of the quantities (the buffer of instants left out)
QuantityBuffers ==
  <<trends.viz_data.wind_speed, trends.viz_data.temperature, trends.viz_data.wind_direction,
    trends.recent_wind_speeds, trends.recent_wind_directions>>

\* the line being processed is not blank and has decoded to no field
EmptyMapping == pc \in {"row", "accept"} /\ cur.line # <<>> /\ cur.parsed = <<>>

\* C22: a non-empty line that decodes to an empty mapping is counted as
\* received: total readings and the point counter each grow by one and a
\* row of the instant alone is written; no statistic, no health entry, no
\* trend buffer of a quantity and no schema column changes.
C22_EmptyMappingIsCountedOnly ==
  /\ [][EmptyMapping =>
          /\ stats' = stats /\ fed' = fed
          /\ data_quality'.sensor_health = data_quality.sensor_health
          /\ data_quality'.error_count = data_quality.error_count
          /\ QuantityBuffers' = QuantityBuffers
          /\ csv_columns' = csv_columns]_vars
  /\ [][(EmptyMapping /\ pc = "row" /\ pc' # pc) =>
          /\ pc' = "accept"
          /\ data_quality'.total_readings = data_quality.total_readings + 1
          /\ Len(log_file') > Len(log_file)
          /\ IsRowOf(log_file'[Len(log_file')], cur.timestamp)
          /\ log_flushed' = Len(log_file')]_vars
  /\ [][(EmptyMapping /\ pc = "accept" /\ pc' # pc) =>
          /\ point_count' = point_count + 1
          /\ Len(data_points') = Len(data_points) + 1]_vars
  /\ [](pc = "row" => cur.line # <<>>)

\* two lines that decode to no field have been counted
C22_TwoLinesWithoutFields ==
  /\ pc = "test"
  /\ point_count = 2 /\ data_quality.total_readings = 2
  /\ data_points[1].parsed_data = <<>> /\ data_points[2].parsed_data = <<>>
  /\ csv_columns = <<Timestamp>> /\ stats = <<>>
  /\ Len(log_file) = 3

\* the positions where a token of s begins, and where the token that begins
\* at i ends
TokenStarts(s) == {i \in 1..Len(s) : ~IsSpace(s[i]) /\ (i = 1 \/ IsSpace(s[i - 1]))}

TokenEnd(s, i) ==
  CHOOSE j \in i..Len(s) :
    /\ \A k \in i..j : ~IsSpace(s[k])
    /\ j = Len(s) \/ IsSpace(s[j + 1])

\* the tokens of s, in order
Tokens(s) ==
  LET starts == TokenStarts(s)
  IN  [k \in 1..Cardinality(starts) |->
         LET i == CHOOSE x \in starts : Cardinality({y \in starts : y < x}) = k - 1
         IN  SubSeq(s, i, TokenEnd(s, i))]

\* the line being processed has no comma
FlatLine == pc = "row" /\ ~Contains(cur.line, ",")

\* the decoded mapping of the line of the nine parameters
NineParameters ==
  << <<<<"S">>, <<"1", "2", ".", "3", "4">>>>, <<<<"S", "2">>, <<"1", "1", ".", "8", "9">>>>,
     <<<<"D">>, <<"1", "8", "0">>>>, <<<<"U">>, <<"0", ".", "5">>>>,
     <<<<"V">>, <<"-", "0", ".", "3">>>>, <<<<"W">>, <<"0", ".", "1">>>>,
     <<<<"T">>, <<"2", "3", ".", "5">>>>, <<<<"H">>, <<"4", "5", ".", "2">>>>,
     <<<<"P">>, <<"1", "0", "1", "3", ".", "2">>>> >>

\* C23: a line without commas, of tokens t0..t(n-1), decodes to exactly the
\* mapping t(2i) -> t(2i+1) for every i with 2i+1 < n: the keys are the
\* tokens at even places, in first-seen order and once each, the values the
\* raw tokens that follow them (the last one for a key that comes twice),
\* and an unpaired last token is dropped; the line of the nine parameters
\* yields S, S2, D, U, V, W, T, H, P with S = "12.34", D = "180", T = "23.5".
C23_FlatLineDecodesInPairs ==
  FlatLine =>
    LET t     == Tokens(cur.line)
        pairs == 1..(Len(t) \div 2)
        key   == [p \in pairs |-> t[2 * p - 1]]
        val   == [p \in pairs |-> t[2 * p]]
        first == [a \in 1..Len(cur.parsed) |->
                    CHOOSE p \in pairs :
                      key[p] = cur.parsed[a][1] /\ \A q \in pairs : key[q] = key[p] => p <= q]
        last  == [a \in 1..Len(cur.parsed) |->
                    CHOOSE p \in pairs :
                      key[p] = cur.parsed[a][1] /\ \A q \in pairs : key[q] = key[p] => q <= p]
    IN  /\ DictKeys(cur.parsed) = {key[p] : p \in pairs}
        /\ \A a, b \in 1..Len(cur.parsed) :
             /\ cur.parsed[a][1] = cur.parsed[b][1] => a = b
             /\ a < b => first[a] < first[b]
        /\ \A a \in 1..Len(cur.parsed) : cur.parsed[a][2] = val[last[a]]
        /\ (Len(t) = 18 /\ t[2] = <<"1", "2", ".", "3", "4">>) => cur.parsed = NineParameters

\* the line of the nine parameters has been decoded, after a line whose
\* unpaired last token was dropped
C23_NineParametersDecoded ==
  /\ pc = "row"
  /\ cur.parsed = NineParameters
  /\ Len(data_points) = 1
  /\ Len(Tokens(data_points[1].raw_data)) = 5
  /\ Len(data_points[1].parsed_data) = 2

\* s without the whitespace at its ends
Trimmed(s) ==
  LET inked == {i \in 1..Len(s) : ~IsSpace(s[i])}
  IN  IF inked = {} THEN <<>>
      ELSE SubSeq(s, CHOOSE i \in inked : \A j \in inked : i <= j,
                     CHOOSE i \in inked : \A j \in inked : j <= i)

\* the pieces of s between its commas, each trimmed
Pieces(s) ==
  LET commas == {i \in 1..Len(s) : s[i] = ","}
      cut    == [k \in 0..(Cardinality(commas) + 1) |->
                   IF k = 0 THEN 0
                   ELSE IF k > Cardinality(commas) THEN Len(s) + 1
                   ELSE CHOOSE x \in commas : Cardinality({y \in commas : y < x}) = k - 1]
  IN  [k \in 1..(Cardinality(commas) + 1) |-> Trimmed(SubSeq(s, cut[k - 1] + 1, cut[k] - 1))]

\* the place of the first space of a piece, 0 when it has none
SpaceAt(piece) ==
  IF \E i \in 1..Len(piece) : piece[i] = " "
  THEN CHOOSE i \in 1..Len(piece) : piece[i] = " " /\ \A j \in 1..(i - 1) : piece[j] # " "
  ELSE 0

\* the text of a piece before its first space, and the rest trimmed
BeforeSpace(piece) == SubSeq(piece, 1, SpaceAt(piece) - 1)

AfterSpace(piece) == Trimmed(SubSeq(piece, SpaceAt(piece) + 1, Len(piece)))

\* the line being processed has a comma
CommaLine == pc = "row" /\ Contains(cur.line, ",")

\* the mapping `parsed` holds, for the pieces with a space and no other,
\* the key keyOf(piece) with the value of the last such piece
DecodesPieces(parsed, pieces, keyOf(_)) ==
  LET good == {k \in 1..Len(pieces) : SpaceAt(pieces[k]) > 0}
  IN  /\ DictKeys(parsed) = {keyOf(pieces[k]) : k \in good}
      /\ \A a, b \in 1..Len(parsed) : parsed[a][1] = parsed[b][1] => a = b
      /\ \A a \in 1..Len(parsed) :
           \E k \in good :
             /\ keyOf(pieces[k]) = parsed[a][1]
             /\ AfterSpace(pieces[k]) = parsed[a][2]
             /\ \A m \in good : keyOf(pieces[m]) = parsed[a][1] => m <= k

\* C24 as claimed: a line with a comma is split on commas; each trimmed
\* piece with a space gives key = the text before its first space, value =
\* the trimmed remainder; a piece without a space is skipped and the other
\* pieces are still decoded.
C24_CommaLineKeyIsTextBeforeSpace ==
  CommaLine => DecodesPieces(cur.parsed, Pieces(cur.line), BeforeSpace)

\* the key of a piece: the text before its first space, trimmed
TrimmedBeforeSpace(piece) == Trimmed(BeforeSpace(piece))

\* C24 amended: as claimed, with key = the trimmed text before the first
\* space of the piece.
C24_CommaLineDecodesPieceByPiece ==
  CommaLine => DecodesPieces(cur.parsed, Pieces(cur.line), TrimmedBeforeSpace)

\* a line with pieces skipped between pieces decoded
C24_PiecesSkippedAndDecoded ==
  /\ CommaLine
  /\ Len(Pieces(cur.line)) = 5
  /\ Len(cur.parsed) = 3
  /\ cur.parsed[3] = <<<<"H">>, <<"x">>>>

\* ------------------------------------------------------------ trend buffers

\* q2 is q after x was pushed into a buffer of capacity cap: x is the
\* newest member, the members before it are the newest cap - 1 of q
PushedInto(q, x, cap, q2) ==
  /\ Len(q2) = (IF Len(q) < cap THEN Len(q) + 1 ELSE cap)
  /\ q2[Len(q2)] = x
  /\ SubSeq(q2, 1, Len(q2) - 1) = LastN(q, cap - 1)

\* the step of read_serial_data that takes an accepted value
TakesValue == pc = "stat" /\ pc' # "stat"

FloatZero == [neg |-> FALSE, exp |-> 0, bits |-> <<>>]

\* the four bits of each of the hexadecimal digits h, most significant first
RECURSIVE HexBits(_)
HexBits(h) ==
  IF h = <<>> THEN <<>>
  ELSE <<Head(h) \div 8, (Head(h) \div 4) % 2, (Head(h) \div 2) % 2, Head(h) % 2>>
       \o HexBits(Tail(h))

\* float.fromhex("(-)0x1.<h>p<exp>") for thirteen hexadecimal digits h
Float(neg, h, exp) == [neg |-> neg, exp |-> exp, bits |-> <<1>> \o HexBits(h)]

Zeros(n) == [i \in 1..n |-> 0]

\* the leading zeros of a bit string dropped
StripZeros(a) ==
  IF \A i \in 1..Len(a) : a[i] = 0 THEN <<>>
  ELSE SubSeq(a, CHOOSE i \in 1..Len(a) : a[i] = 1 /\ \A k \in 1..(i - 1) : a[k] = 0,
              Len(a))

\* a < b for bit strings of one length
BitsLess(a, b) ==
  \E i \in 1..Len(a) : a[i] < b[i] /\ \A k \in 1..(i - 1) : a[k] = b[k]

\* a + b for bit strings of one length: a carry comes into place i from the
\* nearest lower place where both bits are set, through places with one set
AddBits(a, b) ==
  LET n == Len(a)
      carry(i) == \E j \in (i + 1)..n :
                    /\ a[j] = 1 /\ b[j] = 1
                    /\ \A k \in (i + 1)..(j - 1) : a[k] + b[k] = 1
      bit(i) == IF i = 0 THEN 0 ELSE a[i] + b[i]
  IN  [i \in 1..(n + 1) |-> (bit(i - 1) + (IF carry(i - 1) THEN 1 ELSE 0)) % 2]

\* a - b for bit strings of one length, a >= b: place i lends to the nearest
\* lower place where a has 0 and b has 1, through places with equal bits
SubBits(a, b) ==
  LET n == Len(a)
      borrow(i) == \E j \in (i + 1)..n :
                     /\ a[j] = 0 /\ b[j] = 1
                     /\ \A k \in (i + 1)..(j - 1) : a[k] = b[k]
  IN  [i \in 1..n |-> (a[i] - b[i] - (IF borrow(i) THEN 1 ELSE 0) + 2) % 2]

\* the float nearest to (+/-) r * 2^e for a bit string r, ties to even
RoundFloat(neg, r0, e) ==
  LET r == StripZeros(r0)
      n == Len(r)
  IN  IF n = 0 THEN FloatZero
      ELSE IF n <= 53
      THEN [neg |-> neg, exp |-> e + n - 1, bits |-> r \o Zeros(53 - n)]
      ELSE LET keep == SubSeq(r, 1, 53)
               rest == SubSeq(r, 54, n)
               up   == /\ rest[1] = 1
                       /\ \/ keep[53] = 1
                          \/ \E i \in 2..Len(rest) : rest[i] = 1
               more == AddBits(keep, Zeros(52) \o <<1>>)
           IN  IF ~up THEN [neg |-> neg, exp |-> e + n - 1, bits |-> keep]
               ELSE IF more[1] = 1
               THEN [neg |-> neg, exp |-> e + n, bits |-> SubSeq(more, 1, 53)]
               ELSE [neg |-> neg, exp |-> e + n - 1, bits |-> Tail(more)]

\* y next to a much larger x: only the sign of y can tell in x + y, and
\* a y of 2^-60 times the leading bit of x rounds the same way
Sticky(y, x) ==
  IF y.exp < x.exp - 60
  THEN [neg |-> y.neg, exp |-> x.exp - 60, bits |-> <<1>> \o Zeros(52)]
  ELSE y

\* x + y in binary64, rounded to nearest
FloatAdd(x0, y0) ==
  IF x0.bits = <<>> THEN y0
  ELSE IF y0.bits = <<>> THEN x0
  ELSE LET x  == Sticky(x0, y0)
           y  == Sticky(y0, x0)
           ex == x.exp - 52
           ey == y.exp - 52
           e  == IF ex < ey THEN ex ELSE ey
           a0 == x.bits \o Zeros(ex - e)
           b0 == y.bits \o Zeros(ey - e)
           n  == IF Len(a0) > Len(b0) THEN Len(a0) ELSE Len(b0)
           a  == Zeros(n - Len(a0)) \o a0
           b  == Zeros(n - Len(b0)) \o b0
       IN  IF x.neg = y.neg THEN RoundFloat(x.neg, AddBits(a, b), e)
           ELSE IF BitsLess(a, b) THEN RoundFloat(y.neg, SubBits(b, a), e)
           ELSE RoundFloat(x.neg, SubBits(a, b), e)

\* |x| < |y| in binary64
FloatSmaller(x, y) ==
  IF y.bits = <<>> THEN FALSE
  ELSE IF x.bits = <<>> THEN TRUE
  ELSE IF x.exp # y.exp THEN x.exp < y.exp
  ELSE BitsLess(x.bits, y.bits)

\* x < y in binary64
FloatLess(x, y) ==
  LET xn == x.neg /\ x.bits # <<>>
      yn == y.neg /\ y.bits # <<>>
  IN  IF xn /\ ~yn THEN TRUE
      ELSE IF ~xn /\ yn THEN FALSE
      ELSE IF xn THEN FloatSmaller(y, x)
      ELSE FloatSmaller(x, y)

\* sum(xs) over floats: the additions from the left, starting from 0
RECURSIVE FloatSumTo(_, _)
FloatSumTo(xs, n) == IF n = 0 THEN FloatZero ELSE FloatAdd(FloatSumTo(xs, n - 1), xs[n])

\* 360.0
Float360 == Float(FALSE, <<6, 8, 0, 0, 0, 0, 0, 0, 0, 0, 0, 0, 0>>, 8)

\* math.sin(math.radians(d)) for the directions of DirLines, d in hundredths
SinDegrees(d) ==
  CASE d = 35000 -> Float(TRUE, <<6, 3, 10, 1, 10, 7, 14, 0, 11, 7, 3, 8, 11>>, -3)
    [] d = 1000 -> Float(FALSE, <<6, 3, 10, 1, 10, 7, 14, 0, 11, 7, 3, 8, 9>>, -3)
    [] d = 19000 -> Float(TRUE, <<6, 3, 10, 1, 10, 7, 14, 0, 11, 7, 3, 8, 14>>, -3)
    [] d = 36000 -> Float(TRUE, <<1, 10, 6, 2, 6, 3, 3, 1, 4, 5, 12, 0, 7>>, -52)

\* math.cos(math.radians(d)) for the directions of DirLines, d in hundredths
CosDegrees(d) ==
  CASE d = 35000 -> Float(FALSE, <<15, 8, 3, 8, 11, 8, 12, 8, 1, 1, 12, 1, 7>>, -1)
    [] d = 1000 -> Float(FALSE, <<15, 8, 3, 8, 11, 8, 12, 8, 1, 1, 12, 1, 7>>, -1)
    [] d = 19000 -> Float(TRUE, <<15, 8, 3, 8, 11, 8, 12, 8, 1, 1, 12, 1, 7>>, -1)
    [] d = 36000 -> Float(FALSE, <<0, 0, 0, 0, 0, 0, 0, 0, 0, 0, 0, 0, 0>>, 0)

\* math.degrees(math.atan2(y, x)) at the sums of one or two directions: the
\* rows are <<y, x, degrees>>
Atan2Rows ==
  { <<Float(TRUE, <<6, 3, 10, 1, 10, 7, 14, 0, 11, 7, 3, 8, 11>>, -3),
       Float(FALSE, <<15, 8, 3, 8, 11, 8, 12, 8, 1, 1, 12, 1, 7>>, -1),
       Float(TRUE, <<4, 0, 0, 0, 0, 0, 0, 0, 0, 0, 0, 0, 2>>, 3)>>,
    <<Float(FALSE, <<6, 3, 10, 1, 10, 7, 14, 0, 11, 7, 3, 8, 9>>, -3),
       Float(FALSE, <<15, 8, 3, 8, 11, 8, 12, 8, 1, 1, 12, 1, 7>>, -1),
       Float(FALSE, <<4, 0, 0, 0, 0, 0, 0, 0, 0, 0, 0, 0, 0>>, 3)>>,
    <<Float(TRUE, <<6, 3, 10, 1, 10, 7, 14, 0, 11, 7, 3, 8, 14>>, -3),
       Float(TRUE, <<15, 8, 3, 8, 11, 8, 12, 8, 1, 1, 12, 1, 7>>, -1),
       Float(TRUE, <<5, 4, 0, 0, 0, 0, 0, 0, 0, 0, 0, 0, 0>>, 7)>>,
    <<Float(TRUE, <<1, 10, 6, 2, 6, 3, 3, 1, 4, 5, 12, 0, 7>>, -52),
       Float(FALSE, <<0, 0, 0, 0, 0, 0, 0, 0, 0, 0, 0, 0, 0>>, 0),
       Float(TRUE, <<15, 9, 9, 11, 7, 0, 12, 15, 11, 10, 9, 6, 14>>, -47)>>,
    <<Float(TRUE, <<6, 3, 10, 1, 10, 7, 14, 0, 11, 7, 3, 8, 11>>, -2),
       Float(FALSE, <<15, 8, 3, 8, 11, 8, 12, 8, 1, 1, 12, 1, 7>>, 0),
       Float(TRUE, <<4, 0, 0, 0, 0, 0, 0, 0, 0, 0, 0, 0, 2>>, 3)>>,
    <<Float(TRUE, <<0, 0, 0, 0, 0, 0, 0, 0, 0, 0, 0, 0, 0>>, -54),
       Float(FALSE, <<15, 8, 3, 8, 11, 8, 12, 8, 1, 1, 12, 1, 7>>, 0),
       Float(TRUE, <<13, 1, 6, 15, 15, 1, 3, 2, 8, 10, 3, 4, 13>>, -50)>>,
    <<Float(TRUE, <<6, 3, 10, 1, 10, 7, 14, 0, 11, 7, 3, 8, 12>>, -2),
       FloatZero,
       Float(TRUE, <<6, 8, 0, 0, 0, 0, 0, 0, 0, 0, 0, 0, 0>>, 6)>>,
    <<Float(TRUE, <<6, 3, 10, 1, 10, 7, 14, 0, 11, 7, 3, 9, 4>>, -3),
       Float(FALSE, <<15, 12, 1, 12, 5, 12, 6, 4, 0, 8, 14, 0, 12>>, 0),
       Float(TRUE, <<4, 0, 0, 0, 0, 0, 0, 0, 0, 0, 0, 0, 9>>, 2)>>,
    <<Float(FALSE, <<6, 3, 10, 1, 10, 7, 14, 0, 11, 7, 3, 8, 9>>, -2),
       Float(FALSE, <<15, 8, 3, 8, 11, 8, 12, 8, 1, 1, 12, 1, 7>>, 0),
       Float(FALSE, <<4, 0, 0, 0, 0, 0, 0, 0, 0, 0, 0, 0, 0>>, 3)>>,
    <<Float(TRUE, <<4, 0, 0, 0, 0, 0, 0, 0, 0, 0, 0, 0, 0>>, -53),
       FloatZero,
       Float(TRUE, <<6, 8, 0, 0, 0, 0, 0, 0, 0, 0, 0, 0, 0>>, 6)>>,
    <<Float(FALSE, <<6, 3, 10, 1, 10, 7, 14, 0, 11, 7, 3, 8, 0>>, -3),
       Float(FALSE, <<15, 12, 1, 12, 5, 12, 6, 4, 0, 8, 14, 0, 12>>, 0),
       Float(FALSE, <<3, 15, 15, 15, 15, 15, 15, 15, 15, 15, 15, 15, 7>>, 2)>>,
    <<Float(TRUE, <<6, 3, 10, 1, 10, 7, 14, 0, 11, 7, 3, 8, 14>>, -2),
       Float(TRUE, <<15, 8, 3, 8, 11, 8, 12, 8, 1, 1, 12, 1, 7>>, 0),
       Float(TRUE, <<5, 4, 0, 0, 0, 0, 0, 0, 0, 0, 0, 0, 0>>, 7)>>,
    <<Float(TRUE, <<6, 3, 10, 1, 10, 7, 14, 0, 11, 7, 3, 9, 7>>, -3),
       Float(FALSE, <<15, 1, 13, 1, 12, 13, 15, 11, 8, 15, 10, 4, 0>>, -7),
       Float(TRUE, <<5, 4, 0, 0, 0, 0, 0, 0, 0, 0, 0, 0, 0>>, 6)>>,
    <<Float(TRUE, <<1, 10, 6, 2, 6, 3, 3, 1, 4, 5, 12, 0, 7>>, -51),
       Float(FALSE, <<0, 0, 0, 0, 0, 0, 0, 0, 0, 0, 0, 0, 0>>, 1),
       Float(TRUE, <<15, 9, 9, 11, 7, 0, 12, 15, 11, 10, 9, 6, 14>>, -47)>> }

\* math.degrees(math.atan2(y, x))
DegreesAtan2(y, x) == (CHOOSE row \in Atan2Rows : row[1] = y /\ row[2] = x)[3]

\* -------------------------------------------------------------- wind panel

\* calculate_mean_direction: the angle of the summed unit vectors, with 360
\* added to a negative angle
calculate_mean_direction(directions) ==
  IF directions = <<>> THEN FloatZero
  ELSE LET n        == Len(directions)
           sin_sum  == FloatSumTo([i \in 1..n |-> SinDegrees(directions[i])], n)
           cos_sum  == FloatSumTo([i \in 1..n |-> CosDegrees(directions[i])], n)
           mean_deg == DegreesAtan2(sin_sum, cos_sum)
       IN  IF FloatLess(mean_deg, FloatZero) THEN FloatAdd(mean_deg, Float360)
           ELSE mean_deg

\* the direction range without the wraparound case
dir_range_NoWraparound(recent) == SeqMax(recent) - SeqMin(recent)

\* update_display: max - min of the directions, taken the other way round
\* the circle when it is more than half a turn
dir_range(recent) ==
  IF SeqMax(recent) - SeqMin(recent) > HalfTurn
  THEN FullTurn - (SeqMax(recent) - SeqMin(recent))
  ELSE SeqMax(recent) - SeqMin(recent)

\* update_display takes the wind figures from the long buffers
recent_dirs == trends.recent_wind_directions

\* the wind panel shows figures of the long buffers
WindPanel ==
  /\ Len(trends.viz_data.wind_speed) > 0 /\ Len(trends.viz_data.wind_direction) > 0
  /\ Len(trends.recent_wind_speeds) > 0 /\ Len(trends.recent_wind_directions) > 0

\* the values of a sequence
Members(q) == {q[i] : i \in 1..Len(q)}

\* C26: the direction range shown is max - min of the buffered directions,
\* or 360 minus that when it is more than 180: for directions in [0, 360] it
\* lies in [0, 180], and the readings 350 and 10 give 20.
C26_DirectionRangeFolded ==
  (WindPanel /\ \A d \in Members(recent_dirs) : 0 <= d /\ d <= FullTurn) =>
    LET span == SeqMax(recent_dirs) - SeqMin(recent_dirs)
        r    == dir_range(recent_dirs)
    IN  /\ 0 <= r /\ r <= HalfTurn
        /\ span <= HalfTurn => r = span
        /\ span > HalfTurn => r + span = FullTurn
        /\ Members(recent_dirs) = {35000, 1000} => r = 2000

\* the directions 350 and 10 have been read and the range shown is 20
C26_RangeAcrossNorth ==
  /\ WindPanel /\ pc = "test"
  /\ recent_dirs = <<35000, 1000>>
  /\ dir_range(recent_dirs) = 2000

\* C27: the mean direction shown is never negative and always below 360,
\* and the mean of the directions 350 and 10 is 0.
C27_MeanDirectionBelow360 ==
  WindPanel =>
    /\ ~FloatLess(calculate_mean_direction(recent_dirs), FloatZero)
    /\ FloatLess(calculate_mean_direction(recent_dirs), Float360)
    /\ Members(recent_dirs) = {35000, 1000} =>
         calculate_mean_direction(recent_dirs) = FloatZero

\* ----------------------------------------------------------- recent history

\* the step of run() that counts a point
CountsPoint == point_count' = point_count + 1

\* C28: the recent history never holds more than 1000 frames: it holds
\* min(n, 1000) frames after n accepted lines, in arrival order, the first
\* and the last of them being those of the rows n - min(n, 1000) + 1 and n
\* of the log; the step that accepts a line pushes exactly one frame, that of
\* the line, the frames kept staying as they were and the oldest leaving a
\* full history, and no other step changes the history.
C28_HistoryIsTheLastThousandFrames ==
  /\ [](/\ Len(data_points) <= MAX_DATAPOINTS
        /\ Len(data_points) = PyMin(point_count, MAX_DATAPOINTS)
        /\ \A j \in 2..Len(data_points) :
             data_points[j - 1].timestamp < data_points[j].timestamp
        /\ (pc = "test" /\ point_count > 0 /\ IsHeader(log_file[1])) =>
             /\ IsRowOf(log_file[point_count - Len(data_points) + 2],
                        data_points[1].timestamp)
             /\ IsRowOf(log_file[point_count + 1],
                        data_points[Len(data_points)].timestamp))
  /\ [][CountsPoint =>
          PushedInto(data_points,
                     [timestamp |-> cur.timestamp, raw_data |-> cur.line,
                      parsed_data |-> cur.parsed],
                     MAX_DATAPOINTS, data_points')]_vars
  /\ [][~CountsPoint => data_points' = data_points]_vars

\* more than 1000 lines were accepted and the frame of the first has left
C28_FirstFrameHasLeft ==
  /\ pc = "test"
  /\ point_count > MAX_DATAPOINTS
  /\ Len(data_points) = MAX_DATAPOINTS
  /\ data_points[1].timestamp = point_count - MAX_DATAPOINTS + 1
  /\ data_points[1].parsed_data = <<>>

\* ------------------------------------------------------- reading a log back

\* l starts with a bracketed text, then whitespace or nothing, then a comma
Bracketed(l) ==
  /\ l # <<>> /\ l[1] = "["
  /\ \E j \in 2..Len(l) : \E k \in (j + 1)..Len(l) :
       /\ l[j] = "]" /\ l[k] = ","
       /\ \A m \in (j + 1)..(k - 1) : IsSpace(l[m])

\* the first line has a comma and a Time or timestamp token
CommaAndTime(l) ==
  /\ \E i \in 1..Len(l) : l[i] = ","
  /\ HasText(l, TimeName) \/ HasText(l, Timestamp)

\* the file cut down to its first two lines
FirstTwoLines(f) ==
  [f EXCEPT !.lines = SubSeq(@, 1, IF Len(@) < 2 THEN Len(@) ELSE 2)]

\* C29: the format detected depends on the first two lines only and follows
\* the rules in order: csv when the first line has a comma and a Time or
\* timestamp token; else tagged when the first or the second line starts
\* with a bracketed text followed by a comma; else json when the first line
\* contains parsed_json; else unknown. A file that cannot be read is
\* unknown, and a file that is unknown is given to no parser and gives the
\* no-data result.
C29_DetectionFollowsTheRulesInOrder ==
  vis_pc = "done" =>
    LET l1     == StrippedLine(file, 1)
        l2     == StrippedLine(file, 2)
        tagged == Bracketed(l1) \/ Bracketed(l2)
    IN  /\ log_format \in {"csv", "tagged", "json", "unknown"}
        /\ ~file.readable => log_format = "unknown"
        /\ file.readable =>
             /\ log_format = "csv" <=> CommaAndTime(l1)
             /\ log_format = "tagged" <=> (~CommaAndTime(l1) /\ tagged)
             /\ log_format = "json" <=>
                  (~CommaAndTime(l1) /\ ~tagged /\ HasText(l1, ParsedJson))
        /\ log_format = detect_log_format(FirstTwoLines(file))
        /\ log_format = "unknown" => (parser = "none" /\ df = NoData)

\* a file whose first line is bracketed and has a comma and a Time token
\* was classified csv: the comma rule came first
C29_BracketedLineWithATimeToken ==
  /\ vis_pc = "done"
  /\ Bracketed(StrippedLine(file, 1))
  /\ log_format = "csv"

\* the file is in the json encoding: the columns timestamp and parsed_json,
\* and rows of a timestamp and a payload that decodes to an object
JsonEncoded(f) ==
  /\ f.readable /\ Len(f.lines) >= 2
  /\ CsvCells(f.lines[1]) = <<Timestamp, ParsedJson>>
  /\ \A i \in 2..Len(f.lines) :
       /\ Len(CsvCells(f.lines[i])) = 2
       /\ ValidTimestamp(CsvCells(f.lines[i])[1])
       /\ JsonDecode(CsvCells(f.lines[i])[2]).kind = "object"

\* the keys of the payloads of a file in the json encoding
PayloadKeys(f) ==
  UNION {Members(JsonDecode(CsvCells(f.lines[i])[2]).keys) : i \in 2..Len(f.lines)}

\* C30: a file in the json encoding given to parse_trisonica_log is handled
\* by the json parser, and the record set returned has the keys of the
\* payloads as columns.
C30_JsonFileGetsFlattened ==
  (vis_pc = "done" /\ JsonEncoded(file)) =>
    /\ parser = "json"
    /\ df.ok
    /\ PayloadKeys(file) \subseteq Members(df.columns)

\* ----------------------------------------------------------- the json parser

\* the file has the two columns the json parser requires
HasJsonColumns(f) ==
  /\ read_csv(f).ok
  /\ Contains(read_csv(f).columns, Timestamp)
  /\ Contains(read_csv(f).columns, ParsedJson)

\* the payload cell of a row of such a file
PayloadCell(f, row) == CellOf(row, IndexOf(read_csv(f).columns, ParsedJson))

\* the rows of such a file that are usable: the timestamp parses and the
\* payload decodes to a key-value object
UsableRows(f) ==
  {i \in 1..Len(read_csv(f).rows) :
     /\ ValidTimestamp(CellOf(read_csv(f).rows[i], IndexOf(read_csv(f).columns, Timestamp)))
     /\ PayloadCell(f, read_csv(f).rows[i]) # <<>>
     /\ JsonDecode(PayloadCell(f, read_csv(f).rows[i])).kind = "object"}

\* C31: the json parser, given a file with its two columns, skips the rows
\* whose payload is malformed, missing or no key-value object and returns
\* every other row; it returns the no-data result only when no row is usable.
C31_UndecodableRowsAreSkipped ==
  (vis_pc = "done" /\ parser = "json" /\ HasJsonColumns(file)) =>
    /\ df.ok <=> UsableRows(file) # {}
    /\ df.ok => df.rows = Cardinality(UsableRows(file))

\* ------------------------------------------------------------ the csv parser

\* the rows, among those whose timestamp parses, whose cell in the column
\* col of the file reads -99.50
ErrorCells(f, col) ==
  LET t     == read_csv(f)
      dated == CsvDated(t.rows, IndexOf(t.columns, timestamp_col(t.columns)))
  IN  {i \in 1..Len(dated) :
         ToFloat(CellOf(dated[i], IndexOf(t.columns, col)))
           = [ok |-> TRUE, val |-> FilteredValue]}

\* C32: in the record set the csv parser returns, no cell of the columns S,
\* S2 and S3 holds -99.50, every cell that read -99.50 is missing, and the
\* count reported for each of these columns is the number of its cells that
\* were rewritten.
C32_ErrorCellsRewrittenAndCounted ==
  (vis_pc = "done" /\ parser = "csv" /\ df.ok) =>
    \A n \in 1..Len(wind_speed_cols) :
      LET col == wind_speed_cols[n]
      IN  Contains(df.columns, col) =>
            /\ \A i \in 1..Len(df.cells) :
                 /\ df.cells[i][IndexOf(df.columns, col)]
                      # [ok |-> TRUE, val |-> FilteredValue]
                 /\ i \in ErrorCells(file, col) =>
                      ~df.cells[i][IndexOf(df.columns, col)].ok
            /\ \E m \in 1..Len(reported) :
                 reported[m] = <<col, Cardinality(ErrorCells(file, col))>>

\* ---------------------------------------------------------------- the batch

\* the file gives a record set
GivesRecordSet(f) ==
  \/ detect_log_format(f) = "csv" /\ parse_csv_log(f).ok
  \/ detect_log_format(f) = "tagged" /\ parse_tagged_log(f).ok
  \/ detect_log_format(f) = "json" /\ parse_json_log(f).ok

\* a column of the header of the file, or a key of its tagged lines, whose
\* name holds a path separator and that has a number in some row
SlashColumn(f) ==
  LET frame == parse_trisonica_log(f).df
  IN  \E c \in 1..Len(frame.columns) :
        Contains(frame.columns[c], "/") /\ c \in Plotted(frame)

\* the files of the batch, among the first n, that gave a record set
RecordSets(n) == {i \in 1..n : GivesRecordSet(batch[i])}

\* C33 as stated: when the batch is over every file was processed and the
\* success count is the number of files that gave a record set.
C33_SuccessCountIsTheRecordSets ==
  vis_pc = "summary" =>
    /\ processed = Len(batch)
    /\ yielded = Cardinality(RecordSets(Len(batch)))
    /\ success_count = yielded

\* C33: every parser and the detection return a record set or the no-data
\* result, a file that fails or is not recognized does not stop the batch,
\* and the success count is the number of files that gave a record set and
\* whose plots were all written; it never exceeds the number of record sets.
C33_SuccessCountIsTheFilesPlotted ==
  /\ df.ok \/ df = NoData
  /\ log_format \in {"none", "csv", "tagged", "json", "unknown"}
  /\ vis_pc \in {"batch", "summary", "returned"}
  /\ processed <= Len(batch)
  /\ yielded = Cardinality(RecordSets(processed))
  /\ success_count = Cardinality({i \in RecordSets(processed) : ~SlashColumn(batch[i])})
  /\ vis_pc = "summary" =>
       /\ processed = Len(batch)
       /\ success_count = Cardinality({i \in RecordSets(Len(batch)) :
                                         ~SlashColumn(batch[i])})

\* the batch is over: its first file gave a record set whose plot failed,
\* and the file after it was processed with success
C33_FailureBeforeASuccess ==
  /\ vis_pc = "summary"
  /\ GivesRecordSet(batch[1]) /\ SlashColumn(batch[1])
  /\ yielded = 2
  /\ success_count = 1

\* ------------------------------------------------------------ checkpoint rows

\* the first n values passed to calculate_statistics for a parameter
FirstFed(key, n) ==
  IF DictHas(fed, key) /\ n <= Len(DictGet(fed, key))
  THEN SubSeq(DictGet(fed, key), 1, n)
  ELSE <<>>

\* C34: every row of the statistics log, whether written by a periodic
\* checkpoint or by the signal handler, is a consistent snapshot of its
\* parameter: its count is at least 1, its min and max are the minimum and
\* the maximum of the count values accepted so far, and min <= mean <= max.
C34_CheckpointRowsAreSnapshots ==
  \A j \in 1..Len(stats_file) :
    LET row == stats_file[j]
    IN  /\ row.count >= 1
        /\ Len(FirstFed(row.parameter, row.count)) = row.count
        /\ row.min = SeqMin(FirstFed(row.parameter, row.count))
        /\ row.max = SeqMax(FirstFed(row.parameter, row.count))
        /\ row.min * row.mean.den <= row.mean.num
        /\ row.mean.num <= row.max * row.mean.den

\* ------------------------------------------------------------ repeated signals

\* the checkpoints written from the signal handler that put rows in the log
SignalRows == {i \in SignalCheckpoints : checkpoints[i].last >= checkpoints[i].first}

\* C35: termination signals are idempotent and safe at any instant: the
\* signals after the first write no further checkpoint rows, none of them
\* writes to the closed statistics log (which raises), and a stopped run
\* has its handles closed and nothing written after them.
C35_LaterSignalsWriteNothing ==
  /\ Cardinality(SignalRows) <= 1
  /\ result # "raised"

\* --------------------------------------------------------- handles at the end

\* C36: however the run ends (the source was not acquired, a termination
\* signal, an error that leaves the loop), the data log, the statistics log
\* and the line source are closed when run() has returned.
C36_HandlesClosedWhenTheRunEnds ==
  pc = "stopped" => (~serial_open /\ ~log_open /\ ~stats_open)

\* ------------------------------------------------------- rows and the header

\* C37: every data row of the data log has exactly as many comma-separated
\* fields as the header written at the first frame, also the rows of frames
\* that come after a parameter the header does not name was first seen.
C37_RowsAreAsWideAsTheHeader ==
  \A i \in 2..Len(log_file) :
    Len(FieldsOf(log_file[i])) = Len(FieldsOf(log_file[1]))

\* ------------------------------------------------------------ the two horizons

\* C38: for wind speed and for wind direction the short buffer is, in every
\* state, the most recent min(50, length) values of the long buffer, in the
\* same order.
C38_ShortBufferIsTheTailOfTheLong ==
  /\ trends.viz_data.wind_speed = LastN(trends.recent_wind_speeds, VizLen)
  /\ trends.viz_data.wind_direction = LastN(trends.recent_wind_directions, VizLen)

\* the long speed buffer is full and has lost its first value, the long
\* direction buffer is not full, and both short buffers are full and
\* shorter than their long buffers
C38_BothHorizonsHaveEvicted ==
  /\ Len(trends.recent_wind_speeds) = RecentLen
  /\ CountOf(stats, <<"S">>) + CountOf(stats, <<"S", "2">>) > RecentLen
  /\ Len(trends.recent_wind_directions) \in (VizLen + 1)..(RecentLen - 1)
  /\ Len(trends.viz_data.wind_speed) = VizLen
  /\ Len(trends.viz_data.wind_direction) = VizLen
  /\ trends.viz_data.wind_speed[VizLen] # trends.viz_data.wind_speed[VizLen - 1]

====
